---- MODULE Spec2Model ----
(***************************************************************************)
(* xSysInfo: cache control (cache.c), battery-backed memory (battmem.c),   *)
(* benchmark timer (benchmark.c), hardware register probes (hardware.c)    *)
(* and the application shell with its event loop (main.c).                 *)
(*                                                                         *)
(* A ULONG bit pattern is modelled as the set of its set bit positions     *)
(* (a subset of 0..31): & is intersection, | is union, ~ is complement.    *)
(***************************************************************************)
EXTENDS Integers, Sequences, FiniteSets, TLC

VARIABLES
    \* ---- cache.c / hardware.c: cache control ----
    cpu_type,            \* hw_info.cpu_type
    has,                 \* hw_info.has_icache .. has_copyback
    cacr,                \* the CPU's cache-control register
    toggled,             \* history: the last toggle_* call and the register before it
    conv,                \* a conversion input and, once converted, its results
    \* ---- battmem.c: battery-backed memory ----
    batt,                \* the fields stored in battmem.resource
    battFail,            \* the fields whose resource access fails
    battCode,            \* the error code a failing resource call returns
    data,                \* the BattMemData the last readBattMem filled
    lastWrite,           \* history: the last writeBattMem call
    lastRead,            \* history: the last readBattMem call
    lastOp,              \* history: which of the two ran last
    battOps,             \* the number of readBattMem and writeBattMem calls made
    \* ---- main.c / benchmark.c: the application shell and the timer ----
    pc,                  \* where main is
    wb_startup,          \* started from Workbench (argc == 0)
    g_text_mode,         \* text-only mode
    libs,                \* which of the four library bases are open
    window,              \* app->window is open
    ret,                 \* main's return code
    steps,               \* history: the functions main has called, in order
    tm,                  \* benchmark.c's static handles and open flags
    obj,                 \* the ports and I/O requests behind the handles
    unit,                \* the timer.device units that are open
    timerInit,           \* history: init_timer's failure point and result
    current_view,        \* app->current_view
    running,             \* app->running
    pressed_button,      \* app->pressed_button
    scrollbar_dragging,  \* app->scrollbar_dragging
    buttons,             \* the buttons whose pressed flag is set
    ev,                  \* history: the last window message handled
    \* ---- hardware.c: the register probes beside other tasks ----
    ppc,                 \* the probe step to run next
    forbid,              \* the Forbid() nesting count of the program's task
    machine,             \* the hardware probed
    hwreg,               \* the shared hardware registers
    psave,               \* the probes' local variables
    pass,                \* detect_sdmac's pass counter
    intruded,            \* history: another task ran inside a probe
    \* ---- benchmark.c: run_dhrystone ----
    dhry,                \* run_dhrystone's locals, its timed runs and result
    bench,               \* hw_info's FPU fields, bench_results and the run_benchmarks in progress
    calc,                \* history: the last call of a helper function and its result
    \* ---- main.c: CloseWindowSafely ----
    cw,                  \* the window, its message port and the call in progress
    \* ---- hardware.c: detect_hardware ----
    det                  \* hw_info, the machine detected and the pass in progress

cacheVars == <<cpu_type, has, cacr, toggled, conv>>
battVars  == <<batt, battFail, battCode, data, lastWrite, lastRead, lastOp, battOps>>
timerVars == <<tm, obj, unit, timerInit>>
loopVars  == <<current_view, running, pressed_button, scrollbar_dragging, buttons, ev>>
mainVars  == <<pc, wb_startup, g_text_mode, libs, window, ret, steps>>
shellVars == <<mainVars, timerVars, loopVars>>
probeVars == <<ppc, forbid, machine, hwreg, psave, pass, intruded>>
closeVars == <<cw>>
detVars   == <<det>>
benchRest == <<calc, bench, closeVars, detVars>>
calcRest  == <<dhry, bench, closeVars, detVars>>
runRest   == <<dhry, calc, closeVars, detVars>>
benchVars == <<dhry, calc, bench, closeVars, detVars>>
BenchFrame == UNCHANGED <<cacheVars, battVars, shellVars, probeVars>>

----------------------------------------------------------------------------
(* Bit patterns *)

Bits32 == 0..31

BitAnd(a, b) == a \cap b
BitOr(a, b)  == a \cup b
BitNot(a)    == Bits32 \ a

CACRF_EnableI   == {0}
CACRF_FreezeI   == {1}
CACRF_IBE       == {4}
CACRF_EnableD   == {8}
CACRF_DBE       == {12}
CACRF_CopyBack  == {31}
CACRF_ICACHE040 == {15}

\* the data group and the instruction group of the earlier (68030) layout
DataGroup == CACRF_CopyBack \cup CACRF_EnableD \cup CACRF_DBE
InstGroup == CACRF_EnableI \cup CACRF_IBE

----------------------------------------------------------------------------
(* CPU types: enum CPUType *)

CPU_68000   == 0
CPU_68010   == 1
CPU_68020   == 2
CPU_68EC020 == 3
CPU_68030   == 4
CPU_68EC030 == 5
CPU_68040   == 6
CPU_68LC040 == 7
CPU_68EC040 == 8
CPU_68060   == 9
CPU_68EC060 == 10
CPU_68LC060 == 11
CPU_68080   == 12
CPU_EMU     == 13
CPU_UNKNOWN == 14

CpuTypes == CPU_68000..CPU_UNKNOWN

\* the bits the cache-control register of each CPU family implements; the
\* other bits read as zero whatever is written to them
CacrBits(cpu) ==
    IF cpu < CPU_68020 THEN {}
    ELSE IF cpu < CPU_68030 THEN {0, 1}
    ELSE IF cpu < CPU_68040 THEN {0, 1, 4, 8, 12}
    ELSE IF cpu < CPU_68060 THEN {15, 31}
    ELSE IF cpu <= CPU_68080 THEN {15, 23, 29, 31}
    ELSE {}

GetCacheBits(reg) == reg

SetCacheBits(value, cpu) == BitAnd(value, CacrBits(cpu))

----------------------------------------------------------------------------
(* cache.c *)

convert68030to68040(input, cpu) ==
    IF cpu >= CPU_68040 /\ cpu <= CPU_68080
    THEN LET d == IF BitAnd(input, DataGroup) # {} THEN CACRF_CopyBack ELSE {}
             i == IF BitAnd(input, InstGroup) # {} THEN CACRF_ICACHE040 ELSE {}
             keeper == BitAnd(input, BitNot(DataGroup \cup InstGroup \cup CACRF_ICACHE040))
         IN  BitOr(BitOr(d, i), keeper)
    ELSE input

convert68040to68030_keep15(input, cpu) ==
    IF cpu >= CPU_68040 /\ cpu <= CPU_68080
    THEN LET d == IF BitAnd(input, CACRF_CopyBack) # {} THEN DataGroup ELSE {}
             i == IF BitAnd(input, CACRF_ICACHE040) # {} THEN InstGroup ELSE {}
             keeper == BitAnd(input, BitNot(DataGroup \cup InstGroup))
         IN  BitOr(BitOr(d, i), keeper)
    ELSE input

convert68040to68030(input, cpu) ==
    IF cpu >= CPU_68040 /\ cpu <= CPU_68080
    THEN LET d == IF BitAnd(input, CACRF_CopyBack) # {} THEN DataGroup ELSE {}
             i == IF BitAnd(input, CACRF_ICACHE040) # {} THEN InstGroup ELSE {}
             keeper == BitAnd(input, BitNot(DataGroup \cup InstGroup \cup CACRF_ICACHE040))
         IN  BitOr(BitOr(d, i), keeper)
    ELSE input

convertFlagsFor68040(input, cpu) ==
    IF cpu >= CPU_68040 /\ cpu <= CPU_68080
    THEN LET d == IF BitAnd(input, DataGroup) # {} THEN DataGroup ELSE {}
             i == IF BitAnd(input, InstGroup) # {} THEN InstGroup ELSE {}
         IN  BitOr(d, i)
    ELSE input

\* the register after toggle_cache_flag(flag)
toggle_cache_flag(flag, reg, cpu) ==
    LET current == convert68040to68030(GetCacheBits(reg), cpu)
        f       == convertFlagsFor68040(flag, cpu)
        result  == IF BitAnd(current, f) # {}
                   THEN BitAnd(current, BitNot(f))
                   ELSE BitOr(current, f)
    IN  SetCacheBits(convert68030to68040(result, cpu), cpu)

\* toggle_icache .. toggle_copyback without the capability gate
toggle_ungated(op, flag, capability, reg, cpu) ==
    toggle_cache_flag(flag, reg, cpu)

\* toggle_icache .. toggle_copyback: the register after the call
toggle_gated(op, flag, capability, reg, cpu) ==
    IF capability THEN toggle_cache_flag(flag, reg, cpu) ELSE reg

NoConv == [in |-> {}, mid |-> {}, back |-> {}, out |-> {}, done |-> FALSE]

NoToggle == [op |-> "none", flag |-> {}, cap |-> FALSE, before |-> {}]

Toggle(op, flag, capability) ==
    /\ cacr' = toggle_gated(op, flag, capability, cacr, cpu_type)
    /\ toggled' = [op |-> op, flag |-> flag, cap |-> capability, before |-> cacr]
    /\ UNCHANGED <<cpu_type, has, conv>>
    /\ UNCHANGED <<battVars, shellVars, probeVars, benchVars>>

toggle_icache   == Toggle("icache",   CACRF_EnableI,  has.icache)
toggle_dcache   == Toggle("dcache",   CACRF_EnableD,  has.dcache)
toggle_iburst   == Toggle("iburst",   CACRF_IBE,      has.iburst)
toggle_dburst   == Toggle("dburst",   CACRF_DBE,      has.dburst)
toggle_copyback == Toggle("copyback", CACRF_CopyBack, has.copyback)

\* hardware.c: the capability flags follow from the CPU type
refresh_cache_status ==
    /\ has' = [icache   |-> cpu_type >= CPU_68020,
               dcache   |-> cpu_type >= CPU_68030,
               iburst   |-> cpu_type >= CPU_68030,
               dburst   |-> cpu_type >= CPU_68030,
               copyback |-> cpu_type >= CPU_68040 /\ cpu_type # CPU_68LC040]
    /\ UNCHANGED <<cpu_type, cacr, toggled, conv>>
    /\ UNCHANGED <<battVars, shellVars, probeVars, benchVars>>

\* the bit positions the conversion inputs range over: the five earlier-layout
\* cache bits, the later-layout instruction bit and one unrelated bit
PatternBits == {0, 1, 4, 8, 12, 15, 31}

\* a caller converts the pattern to the later layout and back
RoundTrip ==
    /\ ~conv.done
    /\ conv' = [in   |-> conv.in,
                mid  |-> convert68030to68040(conv.in, cpu_type),
                back |-> convert68040to68030(conv.in, cpu_type),
                out  |-> convert68040to68030(convert68030to68040(conv.in, cpu_type), cpu_type),
                done |-> TRUE]
    /\ UNCHANGED <<cpu_type, has, cacr, toggled>>
    /\ UNCHANGED <<battVars, shellVars, probeVars, benchVars>>

NoFlags == [icache |-> FALSE, dcache |-> FALSE, iburst |-> FALSE,
            dburst |-> FALSE, copyback |-> FALSE]

\* detect_hardware clears hw_info (memset) and detect_cpu sets the CPU type;
\* the register holds whatever the system left in its implemented bits
InitCache ==
    /\ cpu_type \in CpuTypes
    /\ has = NoFlags
    /\ cacr \in SUBSET CacrBits(cpu_type)
    /\ toggled = NoToggle
    /\ conv = [NoConv EXCEPT !.done = TRUE]

\* the conversions applied to every pattern on every CPU type
InitConv ==
    /\ cpu_type \in CpuTypes
    /\ has = NoFlags
    /\ cacr = {}
    /\ toggled = NoToggle
    /\ conv \in {[NoConv EXCEPT !.in = x] : x \in SUBSET PatternBits}

CacheIdle ==
    /\ cpu_type = CPU_68000
    /\ has = NoFlags
    /\ cacr = {}
    /\ toggled = NoToggle
    /\ conv = [NoConv EXCEPT !.done = TRUE]

NextCache ==
    \/ refresh_cache_status
    \/ toggle_icache
    \/ toggle_dcache
    \/ toggle_iburst
    \/ toggle_dburst
    \/ toggle_copyback

NextConv == RoundTrip

----------------------------------------------------------------------------
(* battmem.c *)

RECURSIVE Xor(_, _)
\* a ^ b on naturals
Xor(a, b) ==
    IF a = 0 /\ b = 0 THEN 0
    ELSE ((((a % 2) + (b % 2)) % 2) + (2 * Xor(a \div 2, b \div 2)))

\* the flag members of BattMemData that readBattMem and writeBattMem handle
FlagFields == {"long_timeout", "scan_luns", "sync_transfer",
               "fast_sync_ransfer", "tagged_queuing"}
AmnesiaFields == {"amnesia_amiga", "amnesia_shared"}
BattFields == AmnesiaFields \cup FlagFields \cup {"scsi_id"}

\* the order in which readBattMem reads the fields
ReadOrder == <<"amnesia_amiga", "amnesia_shared", "long_timeout", "scan_luns",
               "sync_transfer", "fast_sync_ransfer", "tagged_queuing", "scsi_id">>

\* the order in which writeBattMem writes the flag fields
WriteOrder == <<"long_timeout", "scan_luns", "sync_transfer",
                "fast_sync_ransfer", "tagged_queuing">>

\* battmem.resource: ReadBattMem and WriteBattMem return zero when the access
\* worked and an error code when it did not
ReadBattMem(field, fails, code)  == IF field \in fails THEN code ELSE 0
WriteBattMem(field, fails, code) == IF field \in fails THEN code ELSE 0

\* what readBattMem stores in the member for the byte it read
Decode(field, Data) ==
    IF field = "scsi_id" THEN Xor(Data % 8, 7) ELSE (Data % 2) = 1

ReadCall(field, fails, code) ==
    [call |-> "ReadBattMem", field |-> field, err |-> ReadBattMem(field, fails, code)]

\* readBattMem whose scan-LUNs read counts for the result like the others
readBattMem_strict(dest, store, fails, code) ==
    [dest   |-> [f \in DOMAIN dest |->
                    IF f \in BattFields /\ ReadBattMem(f, fails, code) = 0
                    THEN Decode(f, store[f]) ELSE dest[f]],
     result |-> \A f \in BattFields : ReadBattMem(f, fails, code) = 0,
     calls  |-> <<[call |-> "ObtainBattSemaphore", field |-> "", err |-> 0]>>
                \o [i \in 1..Len(ReadOrder) |-> ReadCall(ReadOrder[i], fails, code)]
                \o <<[call |-> "ReleaseBattSemaphore", field |-> "", err |-> 0]>>]

\* readBattMem(dest): the members afterwards, the return value and the
\* resource calls in the order made
readBattMem(dest, store, fails, code) ==
    [dest   |-> [f \in DOMAIN dest |->
                    IF f \in BattFields /\ ReadBattMem(f, fails, code) = 0
                    THEN Decode(f, store[f]) ELSE dest[f]],
     result |-> \A f \in BattFields \ {"scan_luns"} : ReadBattMem(f, fails, code) = 0,
     calls  |-> <<[call |-> "ObtainBattSemaphore", field |-> "", err |-> 0]>>
                \o [i \in 1..Len(ReadOrder) |-> ReadCall(ReadOrder[i], fails, code)]
                \o <<[call |-> "ReleaseBattSemaphore", field |-> "", err |-> 0]>>]

WriteCall(field, Data, fails, code) ==
    [call |-> "WriteBattMem", field |-> field, data |-> Data,
     err |-> WriteBattMem(field, fails, code)]

RECURSIVE AndResults(_, _, _, _)
\* result &= WriteBattMem(..) over the first n flag writes, result starting
\* as TRUE (1); BOOL is a 16-bit integer
AndResults(n, fails, code, acc) ==
    IF n = 0 THEN acc
    ELSE LET r == AndResults(n - 1, fails, code, acc)
             e == WriteBattMem(WriteOrder[n], fails, code)
         IN  (r % 2) * (e % 2)

\* the host-ID byte writeBattMem stores for an ID, without the inversion
HostIdByte_plain(id) == id

\* the host-ID byte writeBattMem stores for an ID below 8
HostIdByte(id) == Xor(id, 7)

\* writeBattMem(src): the stored fields afterwards, the return value and the
\* resource calls in the order made
writeBattMem(src, store, fails, code) ==
    LET result  == AndResults(Len(WriteOrder), fails, code, 1) # 0
        flagCalls == [i \in 1..Len(WriteOrder) |->
                        WriteCall(WriteOrder[i], IF src[WriteOrder[i]] THEN 1 ELSE 0,
                                  fails, code)]
        idCalls == IF src.scsi_id < 8
                   THEN <<WriteCall("scsi_id", HostIdByte(src.scsi_id), fails, code)>>
                   ELSE <<>>
        amCalls == IF result
                   THEN <<WriteCall("amnesia_amiga", 1, fails, code),
                          WriteCall("amnesia_shared", 1, fails, code)>>
                   ELSE <<>>
        writes  == flagCalls \o idCalls \o amCalls
        Written(f) == {i \in 1..Len(writes) : writes[i].field = f /\ writes[i].err = 0}
    IN  [store  |-> [f \in DOMAIN store |->
                        IF Written(f) # {}
                        THEN writes[CHOOSE i \in Written(f) : TRUE].data
                        ELSE store[f]],
         result |-> result,
         calls  |-> <<[call |-> "ObtainBattSemaphore", field |-> "", data |-> 0, err |-> 0]>>
                    \o writes
                    \o <<[call |-> "ReleaseBattSemaphore", field |-> "", data |-> 0, err |-> 0]>>]

\* BattMemData values a caller passes to writeBattMem
MaxScsiId == 8

\* the number of calls followed from the start
MaxOps == 2

\* the number of fields that fail together (besides the case that all flag writes fail)
MaxFail == 1

FlagsOf(t, l, s, f, q) ==
    [long_timeout |-> t, scan_luns |-> l, sync_transfer |-> s,
     fast_sync_ransfer |-> f, tagged_queuing |-> q]

BattMemDataOf(flags, id) ==
    [valid_data |-> TRUE, amnesia_amiga |-> FALSE, amnesia_shared |-> FALSE,
     long_timeout |-> flags.long_timeout, scan_luns |-> flags.scan_luns,
     sync_transfer |-> flags.sync_transfer,
     fast_sync_ransfer |-> flags.fast_sync_ransfer,
     tagged_queuing |-> flags.tagged_queuing, scsi_id |-> id]

SrcFlags == {FlagsOf(TRUE, TRUE, TRUE, TRUE, TRUE),
             FlagsOf(TRUE, FALSE, TRUE, FALSE, FALSE)}

SrcSet == {BattMemDataOf(fl, id) : fl \in SrcFlags, id \in 0..MaxScsiId}

NoCall == [done |-> FALSE]

WriteBatt ==
    \E src \in SrcSet :
        LET w == writeBattMem(src, batt, battFail, battCode)
        IN  /\ battOps < MaxOps
            /\ battOps' = battOps + 1
            /\ batt' = w.store
            /\ lastWrite' = [done |-> TRUE, src |-> src, before |-> batt,
                             result |-> w.result, calls |-> w.calls]
            /\ lastOp' = "write"
            /\ UNCHANGED <<battFail, battCode, data, lastRead>>
            /\ UNCHANGED <<cacheVars, shellVars, probeVars, benchVars>>

ReadBatt ==
    LET r == readBattMem(data, batt, battFail, battCode)
    IN  /\ battOps < MaxOps
        /\ battOps' = battOps + 1
        /\ data' = r.dest
        /\ lastRead' = [done |-> TRUE, before |-> data, result |-> r.result,
                        calls |-> r.calls, follows |-> lastOp]
        /\ lastOp' = "read"
        /\ UNCHANGED <<batt, battFail, battCode, lastWrite>>
        /\ UNCHANGED <<cacheVars, shellVars, probeVars, benchVars>>

\* the stored fields when the program starts: factory state, or a configured one
StoreSet ==
    {[amnesia_amiga |-> 0, amnesia_shared |-> 0, long_timeout |-> 0, scan_luns |-> 0,
      sync_transfer |-> 0, fast_sync_ransfer |-> 0, tagged_queuing |-> 0, scsi_id |-> 0],
     [amnesia_amiga |-> 1, amnesia_shared |-> 1, long_timeout |-> 0, scan_luns |-> 1,
      sync_transfer |-> 1, fast_sync_ransfer |-> 0, tagged_queuing |-> 1, scsi_id |-> 5]}

\* hw_info is cleared by detect_hardware before detect_batt_mem reads into it
ZeroData ==
    [valid_data |-> FALSE, amnesia_amiga |-> FALSE, amnesia_shared |-> FALSE,
     long_timeout |-> FALSE, scan_luns |-> FALSE, sync_transfer |-> FALSE,
     fast_sync_ransfer |-> FALSE, tagged_queuing |-> FALSE, scsi_id |-> 0]

ErrCodes == {1, 2}

\* a BattMemData that holds values from an earlier read
OldData == BattMemDataOf(FlagsOf(TRUE, TRUE, FALSE, TRUE, FALSE), 3)

\* writes and reads, with few fields failing or with every flag write failing
InitBatt ==
    /\ batt \in StoreSet
    /\ battFail \in {S \in SUBSET BattFields : Cardinality(S) <= MaxFail \/ S = FlagFields}
    /\ battCode \in ErrCodes
    /\ data = ZeroData
    /\ lastWrite = NoCall
    /\ lastRead = NoCall
    /\ lastOp = "none"
    /\ battOps = 0

\* reads under every combination of failing fields
InitBattRead ==
    /\ batt \in StoreSet
    /\ battFail \in SUBSET BattFields
    /\ battCode \in ErrCodes
    /\ data \in {ZeroData, OldData}
    /\ lastWrite = NoCall
    /\ lastRead = NoCall
    /\ lastOp = "none"
    /\ battOps = 0

BattIdle ==
    /\ batt \in {s \in StoreSet : s.scsi_id = 0}
    /\ battFail = {}
    /\ battCode = 1
    /\ data = ZeroData
    /\ lastWrite = NoCall
    /\ lastRead = NoCall
    /\ lastOp = "none"
    /\ battOps = 0

NextBatt == WriteBatt \/ ReadBatt

NextBattRead == ReadBatt

----------------------------------------------------------------------------
(* benchmark.c: the benchmark timer *)

\* a handle is NULL (FALSE) or set (TRUE); the object it pointed to is
\* "none" (never created), "live" or "freed"
NullTimer == [timer_port |-> FALSE, etimer_port |-> FALSE, timer_req |-> FALSE,
              etimer_req |-> FALSE, timer_open |-> FALSE, etimer_open |-> FALSE,
              TimerBase |-> FALSE, ETimerBase |-> FALSE]

NoObjects == [timer_port |-> "none", etimer_port |-> "none",
              timer_req |-> "none", etimer_req |-> "none"]

NoUnits == [microhz |-> FALSE, eclock |-> FALSE]

\* init_timer's failure points, in the order of the code; 0: none fails
FailPoints == {"none", "timer_port", "etimer_port", "timer_req", "etimer_req",
               "OpenDevice_microhz", "OpenDevice_eclock"}

\* init_timer, started with no handle set: the handles, objects and open
\* units when it returns, and its result
init_timer(failAt) ==
    IF failAt = "timer_port" THEN
        [tm |-> NullTimer, obj |-> NoObjects, unit |-> NoUnits, result |-> FALSE]
    ELSE IF failAt = "etimer_port" THEN
        \* DeletePort(timer_port); timer_port keeps pointing to it
        [tm     |-> [NullTimer EXCEPT !.timer_port = TRUE],
         obj    |-> [NoObjects EXCEPT !.timer_port = "freed"],
         unit   |-> NoUnits,
         result |-> FALSE]
    ELSE IF failAt = "timer_req" THEN
        \* DeletePort(timer_port); timer_port = NULL; etimer_port stays
        [tm     |-> [NullTimer EXCEPT !.etimer_port = TRUE],
         obj    |-> [NoObjects EXCEPT !.timer_port = "freed", !.etimer_port = "live"],
         unit   |-> NoUnits,
         result |-> FALSE]
    ELSE IF failAt = "etimer_req" THEN
        \* both ports deleted; timer_port = NULL; timer_req stays
        [tm     |-> [NullTimer EXCEPT !.etimer_port = TRUE, !.timer_req = TRUE],
         obj    |-> [NoObjects EXCEPT !.timer_port = "freed", !.etimer_port = "freed",
                                      !.timer_req = "live"],
         unit   |-> NoUnits,
         result |-> FALSE]
    ELSE IF failAt = "OpenDevice_microhz" THEN
        \* timer_req and both ports deleted; timer_req = timer_port = NULL
        [tm     |-> [NullTimer EXCEPT !.etimer_port = TRUE, !.etimer_req = TRUE],
         obj    |-> [NoObjects EXCEPT !.timer_port = "freed", !.etimer_port = "freed",
                                      !.timer_req = "freed", !.etimer_req = "live"],
         unit   |-> NoUnits,
         result |-> FALSE]
    ELSE IF failAt = "OpenDevice_eclock" THEN
        \* both requests and both ports deleted; the requests and timer_port
        \* set to NULL; the microsecond unit is not closed
        [tm     |-> [NullTimer EXCEPT !.etimer_port = TRUE],
         obj    |-> [NoObjects EXCEPT !.timer_port = "freed", !.etimer_port = "freed",
                                      !.timer_req = "freed", !.etimer_req = "freed"],
         unit   |-> [NoUnits EXCEPT !.microhz = TRUE],
         result |-> FALSE]
    ELSE
        [tm     |-> [timer_port |-> TRUE, etimer_port |-> TRUE, timer_req |-> TRUE,
                     etimer_req |-> TRUE, timer_open |-> TRUE, etimer_open |-> TRUE,
                     TimerBase |-> TRUE, ETimerBase |-> TRUE],
         obj    |-> [timer_port |-> "live", etimer_port |-> "live",
                     timer_req |-> "live", etimer_req |-> "live"],
         unit   |-> [microhz |-> TRUE, eclock |-> TRUE],
         result |-> TRUE]

\* the handles cleanup_timer passes to DeleteExtIO / DeletePort
CleanupFrees(t) == {h \in {"timer_req", "etimer_req", "timer_port", "etimer_port"} : t[h]}

\* cleanup_timer deletes an object that was already deleted
FreesTwice(t, o) == \E h \in CleanupFrees(t) : o[h] = "freed"

\* cleanup_timer: the objects and units afterwards (every handle is NULL)
cleanup_timer_obj(t, o) ==
    [h \in DOMAIN o |-> IF h \in CleanupFrees(t) THEN "freed" ELSE o[h]]

cleanup_timer_unit(t, u) ==
    [microhz |-> IF t.timer_open THEN FALSE ELSE u.microhz,
     eclock  |-> IF t.etimer_open THEN FALSE ELSE u.eclock]

----------------------------------------------------------------------------
(* main.c: main *)

NoLibs == [intuition |-> FALSE, graphics |-> FALSE, identify |-> FALSE, icon |-> FALSE]

\* main up to init_locale: the launch kind and the arguments
MainStart ==
    /\ pc = "start"
    /\ \E wb \in BOOLEAN, text \in BOOLEAN :
        /\ wb_startup' = wb
        \* parse_args runs only for a CLI start
        /\ g_text_mode' = (~wb /\ text)
    /\ current_view' = "VIEW_MAIN"
    /\ running' = TRUE
    /\ pressed_button' = -1
    /\ scrollbar_dragging' = FALSE
    /\ buttons' = {}
    /\ steps' = Append(steps, "init_locale")
    /\ pc' = "open_libraries"
    /\ UNCHANGED <<libs, window, ret, timerVars, ev>>
    /\ UNCHANGED <<cacheVars, battVars, probeVars, benchVars>>

\* open_libraries: intuition and graphics are required, identify and icon optional
OpenLibraries ==
    /\ pc = "open_libraries"
    /\ \E i \in BOOLEAN, g \in BOOLEAN, id \in BOOLEAN, ic \in BOOLEAN :
        /\ libs' = IF ~i THEN NoLibs
                   ELSE IF ~g THEN [NoLibs EXCEPT !.intuition = TRUE]
                   ELSE [intuition |-> TRUE, graphics |-> TRUE, identify |-> id, icon |-> ic]
        /\ IF i /\ g
           THEN pc' = "parse_tooltypes" /\ ret' = ret
           ELSE pc' = "cleanup_timer" /\ ret' = "RETURN_FAIL"
    /\ steps' = Append(steps, "open_libraries")
    /\ UNCHANGED <<wb_startup, g_text_mode, window, timerVars, loopVars>>
    /\ UNCHANGED <<cacheVars, battVars, probeVars, benchVars>>

\* parse_tooltypes, called for a Workbench start; a TEXT tooltype sets text mode
ParseTooltypes ==
    /\ pc = "parse_tooltypes"
    /\ IF wb_startup
       THEN /\ steps' = Append(steps, "parse_tooltypes")
            /\ \E text \in BOOLEAN :
                 g_text_mode' = (g_text_mode \/ (libs.icon /\ text))
       ELSE UNCHANGED <<steps, g_text_mode>>
    /\ pc' = "detect_hardware"
    /\ UNCHANGED <<wb_startup, libs, window, ret, timerVars, loopVars>>
    /\ UNCHANGED <<cacheVars, battVars, probeVars, benchVars>>

\* detect_hardware (it always returns TRUE) and the four enumerators
DetectAndEnumerate ==
    /\ pc = "detect_hardware"
    /\ steps' = steps \o <<"detect_hardware", "enumerate_all_software",
                           "enumerate_memory_regions", "enumerate_boards",
                           "enumerate_drives">>
    /\ pc' = "init_timer"
    /\ UNCHANGED <<wb_startup, g_text_mode, libs, window, ret, timerVars, loopVars>>
    /\ UNCHANGED <<cacheVars, battVars, probeVars, benchVars>>

InitTimer ==
    /\ pc = "init_timer"
    /\ \E failAt \in FailPoints :
        LET r == init_timer(failAt)
        IN  /\ tm' = r.tm
            /\ obj' = r.obj
            /\ unit' = r.unit
            /\ timerInit' = [called |-> TRUE, failAt |-> failAt, result |-> r.result]
            /\ IF r.result
               THEN /\ pc' = IF g_text_mode THEN "text" ELSE "open_display"
                    /\ ret' = ret
               ELSE /\ pc' = "cleanup_timer"
                    /\ ret' = "RETURN_FAIL"
    /\ steps' = Append(steps, "init_timer")
    /\ UNCHANGED <<wb_startup, g_text_mode, libs, window, loopVars>>
    /\ UNCHANGED <<cacheVars, battVars, probeVars, benchVars>>

\* open_display, then init_buttons and the first redraw
OpenDisplay ==
    /\ pc = "open_display"
    /\ \E ok \in BOOLEAN :
        /\ window' = ok
        /\ IF ok
           THEN /\ steps' = steps \o <<"open_display", "init_buttons",
                                       "redraw_current_view", "main_loop">>
                /\ pc' = "main_loop"
                /\ ret' = ret
           ELSE /\ steps' = Append(steps, "open_display")
                /\ pc' = "cleanup_timer"
                /\ ret' = "RETURN_FAIL"
    /\ UNCHANGED <<wb_startup, g_text_mode, libs, timerVars, loopVars>>
    /\ UNCHANGED <<cacheVars, battVars, probeVars, benchVars>>

\* text mode: run the benchmarks and print the report
TextReport ==
    /\ pc = "text"
    /\ steps' = Append(steps, "run_benchmarks")
    /\ pc' = "cleanup_timer"
    /\ UNCHANGED <<wb_startup, g_text_mode, libs, window, ret, timerVars, loopVars>>
    /\ UNCHANGED <<cacheVars, battVars, probeVars, benchVars>>

\* cleanup_timer. Deleting a port or request a second time frees memory that
\* is no longer the program's: the system may halt there, or go on.
CleanupTimer ==
    /\ pc = "cleanup_timer"
    /\ steps' = Append(steps, "cleanup_timer")
    /\ obj' = cleanup_timer_obj(tm, obj)
    /\ unit' = cleanup_timer_unit(tm, unit)
    /\ tm' = NullTimer
    /\ \/ pc' = "close_display"
       \/ FreesTwice(tm, obj) /\ pc' = "crashed"
    /\ UNCHANGED <<wb_startup, g_text_mode, libs, window, ret, timerInit, loopVars>>
    /\ UNCHANGED <<cacheVars, battVars, probeVars, benchVars>>

CloseDisplay ==
    /\ pc = "close_display"
    /\ steps' = Append(steps, "close_display")
    /\ window' = FALSE
    /\ pc' = "close_libraries"
    /\ UNCHANGED <<wb_startup, g_text_mode, libs, ret, timerVars, loopVars>>
    /\ UNCHANGED <<cacheVars, battVars, probeVars, benchVars>>

CloseLibraries ==
    /\ pc = "close_libraries"
    /\ steps' = Append(steps, "close_libraries")
    /\ libs' = NoLibs
    /\ pc' = "cleanup_locale"
    /\ UNCHANGED <<wb_startup, g_text_mode, window, ret, timerVars, loopVars>>
    /\ UNCHANGED <<cacheVars, battVars, probeVars, benchVars>>

\* cleanup_locale and return ret
CleanupLocale ==
    /\ pc = "cleanup_locale"
    /\ steps' = Append(steps, "cleanup_locale")
    /\ pc' = "done"
    /\ UNCHANGED <<wb_startup, g_text_mode, libs, window, ret, timerVars, loopVars>>
    /\ UNCHANGED <<cacheVars, battVars, probeVars, benchVars>>

----------------------------------------------------------------------------
(* main.c: main_loop, with the GUI layer it calls *)

\* enum ButtonID; pressed_button is -1 when no button is pressed
BTN_NONE               == -1
BTN_QUIT               == 0
BTN_MEMORY             == 1
BTN_DRIVES             == 2
BTN_BOARDS             == 3
BTN_SPEED              == 4
BTN_PRINT              == 5
BTN_EXIT               == 6
BTN_SOFTWARE_SCROLLBAR == 7

\* the regions a pointer position can lie in: some buttons, the scrollbar, none
Regions == {BTN_NONE, BTN_QUIT, BTN_MEMORY, BTN_PRINT, BTN_EXIT, BTN_SOFTWARE_SCROLLBAR}

Views == {"VIEW_MAIN", "VIEW_MEMORY", "VIEW_DRIVES", "VIEW_BOARDS"}

\* handle_click(mx, my): the button under the pointer, or BTN_NONE; a message
\* carries the region its pointer position lies in
handle_click(over) == over

\* handle_button_press(btn): the view and the running flag afterwards
handle_button_press(btn, view, run) ==
    IF btn = BTN_QUIT THEN [view |-> view, running |-> FALSE]
    ELSE IF btn = BTN_MEMORY THEN [view |-> "VIEW_MEMORY", running |-> run]
    ELSE IF btn = BTN_DRIVES THEN [view |-> "VIEW_DRIVES", running |-> run]
    ELSE IF btn = BTN_BOARDS THEN [view |-> "VIEW_BOARDS", running |-> run]
    ELSE IF btn = BTN_EXIT THEN [view |-> "VIEW_MAIN", running |-> run]
    ELSE [view |-> view, running |-> run]

RECURSIVE PressAll(_, _, _)
\* the view and running flag after handle_button_press of each button in turn
PressAll(btns, view, run) ==
    IF btns = <<>> THEN [view |-> view, running |-> run]
    ELSE LET r == handle_button_press(Head(btns), view, run)
         IN  PressAll(Tail(btns), r.view, r.running)

\* set_button_pressed(btn, pressed): the buttons whose pressed flag is set
set_button_pressed(set, btn, pressed) ==
    IF pressed THEN set \cup {btn} ELSE set \ {btn}

\* the buttons whose action the SELECTDOWN branch dispatches: none
DownDispatch(hit) == <<>>

\* SELECTUP dispatching the pressed button wherever the pointer is
UpDispatch_nohit(pressed, hit) ==
    IF pressed # -1 THEN <<pressed>> ELSE <<>>

\* the buttons whose action the SELECTUP branch dispatches
UpDispatch(pressed, hit) ==
    IF pressed # -1 /\ hit = pressed THEN <<pressed>> ELSE <<>>

\* the p/P shortcut dispatching in every view
KeyDispatch_anyview(code, view) ==
    IF code \in {"p", "P"} THEN <<BTN_PRINT>> ELSE <<>>

\* the buttons whose action a vanilla key dispatches
KeyDispatch(code, view) ==
    IF code \in {"p", "P"} /\ view = "VIEW_MAIN" THEN <<BTN_PRINT>> ELSE <<>>

\* the view a vanilla key switches to
KeyView(code, view) ==
    IF code \in {"q", "Q", "ESC"} THEN "VIEW_MAIN"
    ELSE IF view # "VIEW_MAIN" THEN view
    ELSE IF code \in {"m", "M"} THEN "VIEW_MEMORY"
    ELSE IF code \in {"d", "D"} THEN "VIEW_DRIVES"
    ELSE IF code \in {"b", "B"} THEN "VIEW_BOARDS"
    ELSE view

Event(class, code, over, dispatched, scrolled, benchmarked) ==
    [class |-> class, code |-> code, over |-> over,
     dispatched |-> dispatched, scrolled |-> scrolled, benchmarked |-> benchmarked,
     viewBefore |-> current_view, pressedBefore |-> pressed_button,
     draggingBefore |-> scrollbar_dragging, runningBefore |-> running]

NoEvent ==
    [class |-> "none", code |-> "", over |-> BTN_NONE, dispatched |-> <<>>,
     scrolled |-> FALSE, benchmarked |-> FALSE, viewBefore |-> "VIEW_MAIN",
     pressedBefore |-> -1, draggingBefore |-> FALSE, runningBefore |-> FALSE]

\* the inner loop takes the next message whenever one is queued, also after
\* running was cleared
InLoop == pc = "main_loop"

LoopFrame ==
    /\ UNCHANGED <<mainVars, timerVars>>
    /\ UNCHANGED <<cacheVars, battVars, probeVars, benchVars>>

\* Wait returned SIGBREAKF_CTRL_C: running = FALSE; break
CtrlC ==
    /\ InLoop /\ running
    /\ running' = FALSE
    /\ pc' = "cleanup_timer"
    /\ UNCHANGED <<wb_startup, g_text_mode, libs, window, ret, steps, timerVars>>
    /\ UNCHANGED <<current_view, pressed_button, scrollbar_dragging, buttons, ev>>
    /\ UNCHANGED <<cacheVars, battVars, probeVars, benchVars>>

\* the message queue is empty and running is FALSE: main_loop returns
LoopExit ==
    /\ InLoop /\ ~running
    /\ pc' = "cleanup_timer"
    /\ UNCHANGED <<wb_startup, g_text_mode, libs, window, ret, steps, timerVars>>
    /\ UNCHANGED loopVars
    /\ UNCHANGED <<cacheVars, battVars, probeVars, benchVars>>

CloseWindowMsg ==
    /\ InLoop
    /\ running' = FALSE
    /\ ev' = Event("IDCMP_CLOSEWINDOW", "", BTN_NONE, <<>>, FALSE, FALSE)
    /\ UNCHANGED <<current_view, pressed_button, scrollbar_dragging, buttons>>
    /\ LoopFrame

\* IDCMP_MOUSEBUTTONS, SELECTDOWN
MouseDown ==
    /\ InLoop
    /\ \E over \in Regions :
        LET btn == handle_click(over)
            d   == DownDispatch(btn)
            r   == PressAll(d, current_view, running)
        IN  /\ IF btn = BTN_NONE THEN
                   UNCHANGED <<scrollbar_dragging, pressed_button, buttons>>
               ELSE IF btn = BTN_SOFTWARE_SCROLLBAR THEN
                   /\ scrollbar_dragging' = TRUE
                   /\ UNCHANGED <<pressed_button, buttons>>
               ELSE
                   /\ pressed_button' = btn
                   /\ buttons' = set_button_pressed(buttons, btn, TRUE)
                   /\ UNCHANGED scrollbar_dragging
            /\ current_view' = r.view
            /\ running' = r.running
            /\ ev' = Event("IDCMP_MOUSEBUTTONS", "SELECTDOWN", over, d,
                           btn = BTN_SOFTWARE_SCROLLBAR, FALSE)
    /\ LoopFrame

\* IDCMP_MOUSEBUTTONS, SELECTUP
MouseUp ==
    /\ InLoop
    /\ \E over \in Regions :
        LET d == UpDispatch(pressed_button, handle_click(over))
            r == PressAll(d, current_view, running)
        IN  /\ scrollbar_dragging' = FALSE
            /\ pressed_button' = -1
            /\ buttons' = IF pressed_button # -1
                          THEN set_button_pressed(buttons, pressed_button, FALSE)
                          ELSE buttons
            /\ current_view' = r.view
            /\ running' = r.running
            /\ ev' = Event("IDCMP_MOUSEBUTTONS", "SELECTUP", over, d, FALSE, FALSE)
    /\ LoopFrame

\* IDCMP_MOUSEMOVE: forwarded to the scrollbar only while dragging
MouseMove ==
    /\ InLoop
    /\ \E over \in {BTN_NONE, BTN_SOFTWARE_SCROLLBAR} :
        ev' = Event("IDCMP_MOUSEMOVE", "", over, <<>>, scrollbar_dragging, FALSE)
    /\ UNCHANGED <<current_view, running, pressed_button, scrollbar_dragging, buttons>>
    /\ LoopFrame

Keys == {"q", "Q", "ESC", "m", "M", "d", "D", "b", "B", "s", "S", "p", "P", "x"}

\* IDCMP_VANILLAKEY
VanillaKey ==
    /\ InLoop
    /\ \E code \in Keys :
        LET d == KeyDispatch(code, current_view)
            v == KeyView(code, current_view)
            quit == code \in {"q", "Q", "ESC"} /\ current_view = "VIEW_MAIN"
            r == PressAll(d, v, IF quit THEN FALSE ELSE running)
        IN  /\ current_view' = r.view
            /\ running' = r.running
            /\ ev' = Event("IDCMP_VANILLAKEY", code, BTN_NONE, d, FALSE,
                           code \in {"s", "S"} /\ current_view = "VIEW_MAIN")
    /\ UNCHANGED <<pressed_button, scrollbar_dragging, buttons>>
    /\ LoopFrame

\* IDCMP_REFRESHWINDOW: BeginRefresh, redraw, EndRefresh
RefreshWindow ==
    /\ InLoop
    /\ ev' = Event("IDCMP_REFRESHWINDOW", "", BTN_NONE, <<>>, FALSE, FALSE)
    /\ UNCHANGED <<current_view, running, pressed_button, scrollbar_dragging, buttons>>
    /\ LoopFrame

InitShell ==
    /\ pc = "start"
    /\ wb_startup = FALSE
    /\ g_text_mode = FALSE
    /\ libs = NoLibs
    /\ window = FALSE
    /\ ret = "RETURN_OK"
    /\ steps = <<>>
    /\ tm = NullTimer
    /\ obj = NoObjects
    /\ unit = NoUnits
    /\ timerInit = [called |-> FALSE, failAt |-> "none", result |-> FALSE]
    /\ current_view = "VIEW_MAIN"
    /\ running = FALSE
    /\ pressed_button = -1
    /\ scrollbar_dragging = FALSE
    /\ buttons = {}
    /\ ev = NoEvent

NextShell ==
    \/ MainStart
    \/ OpenLibraries
    \/ ParseTooltypes
    \/ DetectAndEnumerate
    \/ InitTimer
    \/ OpenDisplay
    \/ TextReport
    \/ CtrlC
    \/ LoopExit
    \/ CloseWindowMsg
    \/ MouseDown
    \/ MouseUp
    \/ MouseMove
    \/ VanillaKey
    \/ RefreshWindow
    \/ CleanupTimer
    \/ CloseDisplay
    \/ CloseLibraries
    \/ CleanupLocale

----------------------------------------------------------------------------
(* hardware.c / benchmark.c: the register probes, one step per register    *)
(* access, beside the other tasks of the system                            *)

\* positions between a probe's first register write and its restoring write
\* (ppc names the step to run next), and inside a timed loop
ProbeWindow ==
    {"cpu_freeze_read", "cpu_freeze_restore", "cpu_ibe_read", "cpu_ibe_restore",
     "gary_read1", "gary_clear", "gary_read2", "gary_restore",
     "sdmac_read", "sdmac_restore",
     "timed_start", "timed_end", "timed_permit"}

\* the values the six passes of detect_sdmac write to the watchdog register
PassValue(p) ==
    IF p = 0 THEN "00000000" ELSE IF p = 1 THEN "ffffffff"
    ELSE IF p = 2 THEN "a5a5a5a5" ELSE IF p = 3 THEN "5a5a5a5a"
    ELSE IF p = 4 THEN "c2c2c3c3" ELSE "3c3c3c3c"

SdmacPasses == 6

ProbeFrame == UNCHANGED <<cacheVars, battVars, shellVars, benchVars>>

\* detect_cpu: oldBits = CacheControl(CACRF_FreezeI, CACRF_FreezeI)
CpuFreezeWrite ==
    /\ ppc = "cpu_freeze_write"
    /\ psave' = [psave EXCEPT !.oldBits = hwreg.cacr]
    /\ hwreg' = [hwreg EXCEPT !.cacr = IF machine.cpu \in {"68020", "68030"}
                                       THEN BitOr(@, CACRF_FreezeI) ELSE @]
    /\ ppc' = "cpu_freeze_read"
    /\ UNCHANGED <<forbid, machine, pass, intruded>>
    /\ ProbeFrame

\* newBits = CacheControl(0, 0)
CpuFreezeRead ==
    /\ ppc = "cpu_freeze_read"
    /\ psave' = [psave EXCEPT !.newBits = hwreg.cacr]
    /\ ppc' = "cpu_freeze_restore"
    /\ UNCHANGED <<forbid, machine, hwreg, pass, intruded>>
    /\ ProbeFrame

\* CacheControl(oldBits & CACRF_FreezeI, CACRF_FreezeI)
CpuFreezeRestore ==
    /\ ppc = "cpu_freeze_restore"
    /\ hwreg' = [hwreg EXCEPT !.cacr =
                    IF machine.cpu \in {"68020", "68030"}
                    THEN BitOr(BitAnd(@, BitNot(CACRF_FreezeI)),
                               BitAnd(psave.oldBits, CACRF_FreezeI))
                    ELSE @]
    /\ ppc' = IF BitAnd(psave.newBits, CACRF_FreezeI) = CACRF_FreezeI
              THEN "cpu_ibe_write" ELSE "timed_forbid"
    /\ UNCHANGED <<forbid, machine, psave, pass, intruded>>
    /\ ProbeFrame

\* oldBits = CacheControl(CACRF_IBE, CACRF_IBE)
CpuIbeWrite ==
    /\ ppc = "cpu_ibe_write"
    /\ psave' = [psave EXCEPT !.oldBits = hwreg.cacr]
    /\ hwreg' = [hwreg EXCEPT !.cacr = IF machine.cpu = "68030"
                                       THEN BitOr(@, CACRF_IBE) ELSE @]
    /\ ppc' = "cpu_ibe_read"
    /\ UNCHANGED <<forbid, machine, pass, intruded>>
    /\ ProbeFrame

CpuIbeRead ==
    /\ ppc = "cpu_ibe_read"
    /\ psave' = [psave EXCEPT !.newBits = hwreg.cacr]
    /\ ppc' = "cpu_ibe_restore"
    /\ UNCHANGED <<forbid, machine, hwreg, pass, intruded>>
    /\ ProbeFrame

\* CacheControl(oldBits & CACRF_IBE, CACRF_IBE)
CpuIbeRestore ==
    /\ ppc = "cpu_ibe_restore"
    /\ hwreg' = [hwreg EXCEPT !.cacr =
                    IF machine.cpu = "68030"
                    THEN BitOr(BitAnd(@, BitNot(CACRF_IBE)),
                               BitAnd(psave.oldBits, CACRF_IBE))
                    ELSE @]
    /\ ppc' = "timed_forbid"
    /\ UNCHANGED <<forbid, machine, psave, pass, intruded>>
    /\ ProbeFrame

\* measure_loop_overhead: Forbid()
TimedForbid ==
    /\ ppc = "timed_forbid"
    /\ forbid' = forbid + 1
    /\ ppc' = "timed_start"
    /\ UNCHANGED <<machine, hwreg, psave, pass, intruded>>
    /\ ProbeFrame

\* ReadEClock(&start) and the counted loop
TimedStart ==
    /\ ppc = "timed_start"
    /\ ppc' = "timed_end"
    /\ UNCHANGED <<forbid, machine, hwreg, psave, pass, intruded>>
    /\ ProbeFrame

\* ReadEClock(&end)
TimedEnd ==
    /\ ppc = "timed_end"
    /\ ppc' = "timed_permit"
    /\ UNCHANGED <<forbid, machine, hwreg, psave, pass, intruded>>
    /\ ProbeFrame

\* Permit()
TimedPermit ==
    /\ ppc = "timed_permit"
    /\ forbid' = forbid - 1
    /\ ppc' = "gary_save"
    /\ UNCHANGED <<machine, hwreg, psave, pass, intruded>>
    /\ ProbeFrame

\* detect_gary: val = *FAT_GARY_POWER
GarySave ==
    /\ ppc = "gary_save"
    /\ psave' = [psave EXCEPT !.val = hwreg.power]
    /\ ppc' = "gary_set"
    /\ UNCHANGED <<forbid, machine, hwreg, pass, intruded>>
    /\ ProbeFrame

\* *FAT_GARY_POWER = 0x80
GarySet ==
    /\ ppc = "gary_set"
    /\ hwreg' = [hwreg EXCEPT !.power = IF machine.fatGary THEN "80" ELSE @]
    /\ ppc' = "gary_read1"
    /\ UNCHANGED <<forbid, machine, psave, pass, intruded>>
    /\ ProbeFrame

\* tmp = *FAT_GARY_POWER & 0x80; go on only if the bit reads back set
GaryRead1 ==
    /\ ppc = "gary_read1"
    /\ ppc' = IF hwreg.power = "80" THEN "gary_clear" ELSE "sdmac_save"
    /\ UNCHANGED <<forbid, machine, hwreg, psave, pass, intruded>>
    /\ ProbeFrame

\* *FAT_GARY_POWER = 0
GaryClear ==
    /\ ppc = "gary_clear"
    /\ hwreg' = [hwreg EXCEPT !.power = IF machine.fatGary THEN "00" ELSE @]
    /\ ppc' = "gary_read2"
    /\ UNCHANGED <<forbid, machine, psave, pass, intruded>>
    /\ ProbeFrame

\* tmp = *FAT_GARY_POWER & 0x80; FAT_GARY and the restore only if it reads 0
GaryRead2 ==
    /\ ppc = "gary_read2"
    /\ ppc' = IF hwreg.power = "00" THEN "gary_restore" ELSE "sdmac_save"
    /\ UNCHANGED <<forbid, machine, hwreg, psave, pass, intruded>>
    /\ ProbeFrame

\* *FAT_GARY_POWER = val
GaryRestore ==
    /\ ppc = "gary_restore"
    /\ hwreg' = [hwreg EXCEPT !.power = IF machine.fatGary THEN psave.val ELSE @]
    /\ ppc' = "sdmac_save"
    /\ UNCHANGED <<forbid, machine, psave, pass, intruded>>
    /\ ProbeFrame

\* detect_sdmac, one pass: ovalue = *SDMAC_WTC_ALT
SdmacSave ==
    /\ ppc = "sdmac_save"
    /\ psave' = [psave EXCEPT !.ovalue = hwreg.wtc]
    /\ ppc' = "sdmac_write"
    /\ UNCHANGED <<forbid, machine, hwreg, pass, intruded>>
    /\ ProbeFrame

\* *SDMAC_WTC_ALT = wvalue
SdmacWrite ==
    /\ ppc = "sdmac_write"
    /\ hwreg' = [hwreg EXCEPT !.wtc = PassValue(pass)]
    /\ ppc' = "sdmac_read"
    /\ UNCHANGED <<forbid, machine, psave, pass, intruded>>
    /\ ProbeFrame

\* rvalue = *SDMAC_WTC
SdmacRead ==
    /\ ppc = "sdmac_read"
    /\ psave' = [psave EXCEPT !.rvalue = hwreg.wtc]
    /\ ppc' = "sdmac_restore"
    /\ UNCHANGED <<forbid, machine, hwreg, pass, intruded>>
    /\ ProbeFrame

\* *SDMAC_WTC_ALT = ovalue; next pass
SdmacRestore ==
    /\ ppc = "sdmac_restore"
    /\ hwreg' = [hwreg EXCEPT !.wtc = psave.ovalue]
    /\ pass' = pass + 1
    /\ ppc' = IF pass + 1 < SdmacPasses THEN "sdmac_save" ELSE "done"
    /\ UNCHANGED <<forbid, machine, psave, intruded>>
    /\ ProbeFrame

\* another task is scheduled (task switching is not forbidden) and writes one
\* of the shared registers
OtherTask ==
    /\ ppc # "done"
    /\ forbid = 0
    /\ \/ hwreg' = [hwreg EXCEPT !.cacr = IF CACRF_EnableI \subseteq @
                                          THEN @ \ CACRF_EnableI
                                          ELSE @ \cup CACRF_EnableI]
       \/ hwreg' = [hwreg EXCEPT !.power = IF machine.fatGary
                                           THEN (IF @ = "00" THEN "80" ELSE "00")
                                           ELSE @]
       \/ hwreg' = [hwreg EXCEPT !.wtc = "other"]
    /\ intruded' = (intruded \/ ppc \in ProbeWindow)
    /\ UNCHANGED <<ppc, forbid, machine, psave, pass>>
    /\ ProbeFrame

ProbeIdle ==
    /\ ppc = "done"
    /\ forbid = 0
    /\ machine = [cpu |-> "68030", fatGary |-> TRUE]
    /\ hwreg = [cacr |-> {}, power |-> "00", wtc |-> "old"]
    /\ psave = [oldBits |-> {}, newBits |-> {}, val |-> "00",
                ovalue |-> "old", rvalue |-> "old"]
    /\ pass = 0
    /\ intruded = FALSE

\* detect_cpu has found a 68020 or better; the machine is any of these
InitProbe ==
    /\ ppc = "cpu_freeze_write"
    /\ forbid = 0
    /\ machine \in [cpu : {"68020", "68030", "68040"}, fatGary : BOOLEAN]
    /\ hwreg = [cacr |-> {}, power |-> "00", wtc |-> "old"]
    /\ psave = [oldBits |-> {}, newBits |-> {}, val |-> "00",
                ovalue |-> "old", rvalue |-> "old"]
    /\ pass = 0
    /\ intruded = FALSE

NextProbe ==
    \/ CpuFreezeWrite
    \/ CpuFreezeRead
    \/ CpuFreezeRestore
    \/ CpuIbeWrite
    \/ CpuIbeRead
    \/ CpuIbeRestore
    \/ TimedForbid
    \/ TimedStart
    \/ TimedEnd
    \/ TimedPermit
    \/ GarySave
    \/ GarySet
    \/ GaryRead1
    \/ GaryClear
    \/ GaryRead2
    \/ GaryRestore
    \/ SdmacSave
    \/ SdmacWrite
    \/ SdmacRead
    \/ SdmacRestore
    \/ OtherTask

----------------------------------------------------------------------------
(* benchmark.c: 64-bit arithmetic. A wide number is <<hi, lo>>, its value   *)
(* hi * 65536 + lo with lo < 65536, so that values beyond 31 bits are kept  *)
(* exactly                                                                  *)

W16 == 65536

WideOf(n) == <<n \div W16, n % W16>>

WideAdd(w, n) ==
    LET lo == w[2] + (n % W16)
    IN  <<w[1] + (n \div W16) + (lo \div W16), lo % W16>>

WideDouble(w) ==
    LET lo == 2 * w[2]
    IN  <<(2 * w[1]) + (lo \div W16), lo % W16>>

WideGT(a, b) == a[1] > b[1] \/ (a[1] = b[1] /\ a[2] > b[2])

\* ULONG_MAX, 0xFFFFFFFF
ULONG_MAX == <<65535, 65535>>

\* (ULONG)w for a w already known to fit, as an integer below 2^31
WideToInt(w) == (w[1] * W16) + w[2]

\* if (w > ULONG_MAX) return ULONG_MAX; return (ULONG)w;
Saturate(w) == IF WideGT(w, ULONG_MAX) THEN ULONG_MAX ELSE w

RECURSIVE MulDivAcc(_, _, _, _, _, _)
\* adds x * b / c to the accumulator, where x = xq * c + xr and the
\* accumulator is Q * c + R, bit by bit of b
MulDivAcc(b, xq, xr, Q, R, c) ==
    IF b = 0 THEN [q |-> Q, r |-> R]
    ELSE LET bit == b % 2
             R1  == R + (IF bit = 1 THEN xr ELSE 0)
             Q1  == IF bit = 1
                    THEN WideAdd(WideAdd(Q, R1 \div c), xq[2]) 
                    ELSE Q
             Q2  == IF bit = 1 THEN <<Q1[1] + xq[1], Q1[2]>> ELSE Q1
             x2r == 2 * xr
             x2q == WideAdd(WideDouble(xq), x2r \div c)
         IN  MulDivAcc(b \div 2, x2q, x2r % c, Q2, R1 % c, c)

\* (uint64_t)a * b / c and the remainder, for c > 0
MulDiv(a, b, c) == MulDivAcc(b, WideOf(a \div c), a % c, <<0, 0>>, 0, c)

----------------------------------------------------------------------------
(* benchmark.c: run_dhrystone *)

default_loops == 1000
min_runtime_us == 2000000
max_loops == 5000000
max_attempts == 3

\* the loop count after an attempt that did not end the loop, without the
\* upper bound
NextLoops_nocap(loops, elapsed) ==
    IF elapsed < 100 THEN loops * 16
    ELSE WideToInt(WideAdd(MulDiv(min_runtime_us, loops, elapsed).q, loops))

\* the loop count after an attempt that did not end the loop (loops is below
\* max_loops there, so loops * 16 does not wrap)
NextLoops(loops, elapsed) ==
    IF elapsed < 100 THEN
        IF loops * 16 > max_loops THEN max_loops ELSE loops * 16
    ELSE
        LET s0 == WideAdd(MulDiv(min_runtime_us, loops, elapsed).q, loops)
            s1 == IF ~WideGT(s0, WideOf(loops)) THEN WideDouble(WideOf(loops)) ELSE s0
        IN  IF WideGT(s1, WideOf(max_loops)) THEN max_loops ELSE WideToInt(s1)

\* the value run_dhrystone returns after its loop: from the variable loops
\* and the last elapsed time
DhryRate(loops, elapsed) ==
    IF elapsed = 0 THEN <<0, 0>>
    ELSE Saturate(MulDiv(loops, 1000000, elapsed).q)

\* the elapsed times EClock_Diff_in_ms may report
ElapsedSet == {0, 50, 99, 100, 1000, 400000, 1999999, 2000000, 3000000}

NoDhry ==
    [pc |-> "idle", ETimerBase |-> TRUE, attempt |-> 0, loops |-> default_loops,
     elapsed |-> 0, ran |-> <<>>, result |-> <<0, 0>>]

\* run_dhrystone entered: its locals; if (!ETimerBase) return 0
DhryStart ==
    /\ dhry.pc = "idle"
    /\ \E tb \in BOOLEAN :
        dhry' = [NoDhry EXCEPT !.ETimerBase = tb,
                               !.pc = IF tb THEN "loop" ELSE "done"]
    /\ UNCHANGED benchRest
    /\ BenchFrame

\* one pass of the for loop in which Dhry_Initialize fails: return 0
DhryInitFails ==
    /\ dhry.pc = "loop"
    /\ dhry.attempt < max_attempts
    /\ dhry' = [dhry EXCEPT !.pc = "done", !.result = <<0, 0>>]
    /\ UNCHANGED benchRest
    /\ BenchFrame

\* one pass of the for loop: the timed run, the break test, the rescaling
\* and attempt++
DhryAttempt ==
    /\ dhry.pc = "loop"
    /\ dhry.attempt < max_attempts
    /\ \E e \in ElapsedSet :
        LET stop == e >= min_runtime_us \/ dhry.loops >= max_loops
        IN  dhry' = [dhry EXCEPT
                !.elapsed = e,
                !.ran = Append(@, [loops |-> dhry.loops, elapsed |-> e]),
                !.loops = IF stop THEN @ ELSE NextLoops(@, e),
                !.attempt = IF stop THEN @ ELSE @ + 1,
                !.pc = IF stop THEN "after" ELSE "loop"]
    /\ UNCHANGED benchRest
    /\ BenchFrame

\* attempt < max_attempts is false: the loop ends
DhryLoopEnd ==
    /\ dhry.pc = "loop"
    /\ dhry.attempt >= max_attempts
    /\ dhry' = [dhry EXCEPT !.pc = "after"]
    /\ UNCHANGED benchRest
    /\ BenchFrame

\* after the loop: the rate returned
DhryReturn ==
    /\ dhry.pc = "after"
    /\ dhry' = [dhry EXCEPT
            !.pc = "done",
            !.result = DhryRate(dhry.loops, dhry.elapsed)]
    /\ UNCHANGED benchRest
    /\ BenchFrame

NoCalc == [fn |-> "none"]

\* hardware.h FPUType
FPU_NONE == 0
FPU_68881 == 1
FPU_68882 == 2
FPU_68040 == 3
FPU_68060 == 4
FPU_UNKNOWN == 5

FpuTypes == FPU_NONE..FPU_UNKNOWN

\* bench_results after its zero initialisation or memset
NoResults ==
    [dhrystones |-> <<0, 0>>, mips |-> <<0, 0>>, mflops |-> 0,
     memory |-> FALSE, benchmarks_valid |-> FALSE]

\* before detect_hardware: hw_info and bench_results zeroed, nothing running
NoBench ==
    [pc |-> "idle", fpu_type |-> FPU_NONE, fpu_enabled |-> FALSE, seen |-> {},
     cpu_mhz |-> FALSE, comment |-> "", results |-> NoResults, trace |-> <<>>]

InitDhry == dhry = NoDhry /\ calc = NoCalc /\ bench = NoBench

NextDhry ==
    \/ DhryStart
    \/ DhryInitFails
    \/ DhryAttempt
    \/ DhryLoopEnd
    \/ DhryReturn

BenchIdle == dhry = NoDhry /\ calc = NoCalc /\ bench = NoBench

----------------------------------------------------------------------------
(* ULONG values as wide numbers <<hi, lo>> with hi < 65536 *)

\* w * k for a small k
WideMulSmall(w, k) ==
    LET lo == w[2] * k
    IN  <<(w[1] * k) + (lo \div W16), lo % W16>>

\* w / c for a divisor c below 2^15
WideDivSmall(w, c) ==
    LET r == w[1] % c
    IN  <<w[1] \div c, ((r * W16) + w[2]) \div c>>

WideAddW(a, b) ==
    LET lo == a[2] + b[2]
    IN  <<a[1] + b[1] + (lo \div W16), lo % W16>>

WideGE(a, b) == ~WideGT(b, a)

\* the low 32 bits: the result of ULONG arithmetic
Wrap32(w) == <<w[1] % W16, w[2]>>

\* w / 2^k and w % 2^k for k = 10, 20, 30
WideDivPow2(w, k) ==
    IF k = 10 THEN WideDivSmall(w, 1024)
    ELSE IF k = 20 THEN WideOf(w[1] \div 16)
    ELSE WideOf(w[1] \div 16384)

WideModPow2(w, k) ==
    IF k = 10 THEN <<0, w[2] % 1024>>
    ELSE IF k = 20 THEN <<w[1] % 16, w[2]>>
    ELSE <<w[1] % 16384, w[2]>>

\* the 32-bit values the helper functions are applied to
HiParts == {0, 1, 15, 16, 17, 31, 32, 223, 224, 231, 232, 247, 248, 255, 256,
            16383, 16384, 24576, 32767, 32768, 65535}

LoParts == {0, 1, 17, 18, 980, 1023, 1024, 1025, 1756, 1757, 1758, 25464, 65535}

Ulongs == HiParts \X LoParts

----------------------------------------------------------------------------
(* benchmark.c: calculate_mips *)

\* the scaling done in 32 bits
calculate_mips_wrap32(dhrystones) ==
    Saturate(WideDivSmall(Wrap32(WideMulSmall(dhrystones, 100)), 1757))

calculate_mips(dhrystones) ==
    Saturate(WideDivSmall(WideMulSmall(dhrystones, 100), 1757))

CalculateMips ==
    /\ calc = NoCalc
    /\ \E d \in Ulongs :
        calc' = [fn |-> "calculate_mips", in |-> d, out |-> calculate_mips(d)]
    /\ UNCHANGED calcRest
    /\ BenchFrame

----------------------------------------------------------------------------
(* main.c: determine_mem_location, format_size *)

\* the range tests before the ROM test
determine_mem_location_ramfirst(address) ==
    IF ~WideGE(address, <<32, 0>>) THEN "LOC_CHIP_RAM"
    ELSE IF ~WideGE(address, <<256, 0>>) THEN "LOC_24BIT_RAM"
    ELSE "LOC_32BIT_RAM"

determine_mem_location(address) ==
    IF \/ (WideGE(address, <<248, 0>>) /\ WideGE(<<255, 65535>>, address))
       \/ (WideGE(address, <<224, 0>>) /\ ~WideGE(address, <<232, 0>>))
    THEN "LOC_ROM"
    ELSE IF ~WideGE(address, <<32, 0>>) THEN "LOC_CHIP_RAM"
    ELSE IF ~WideGE(address, <<256, 0>>) THEN "LOC_24BIT_RAM"
    ELSE "LOC_32BIT_RAM"

DetermineMemLocation ==
    /\ calc = NoCalc
    /\ \E a \in Ulongs :
        calc' = [fn |-> "determine_mem_location", in |-> a,
                 out |-> determine_mem_location(a)]
    /\ UNCHANGED calcRest
    /\ BenchFrame

\* scaled = (bytes / unit) * 100 + ((bytes % unit) * 100) / unit in ULONG
\* arithmetic, for unit = 2^k
ScaledBy(bytes, k) ==
    Wrap32(WideAddW(
        Wrap32(WideMulSmall(WideDivPow2(bytes, k), 100)),
        WideDivPow2(Wrap32(WideMulSmall(WideModPow2(bytes, k), 100)), k)))

\* format_size: the suffix and the number handed to format_scaled (the plain
\* byte count when there is no suffix)
format_size(bytes) ==
    IF WideGE(bytes, <<16384, 0>>) THEN [suffix |-> "G", value |-> ScaledBy(bytes, 30)]
    ELSE IF WideGE(bytes, <<16, 0>>) THEN [suffix |-> "M", value |-> ScaledBy(bytes, 20)]
    ELSE IF WideGE(bytes, <<0, 1024>>) THEN [suffix |-> "K", value |-> ScaledBy(bytes, 10)]
    ELSE [suffix |-> "", value |-> bytes]

FormatSize ==
    /\ calc = NoCalc
    /\ \E b \in Ulongs :
        calc' = [fn |-> "format_size", in |-> b, out |-> format_size(b)]
    /\ UNCHANGED calcRest
    /\ BenchFrame

----------------------------------------------------------------------------
(* software.c: copy_base_name and the names the enumerators store. A name   *)
(* is a sequence of characters; the words library, device and resource are  *)
(* written as one character each                                            *)

NameChars == {"a", ".", "library", "device", "resource"}

MaxNameLen == 4

RECURSIVE NamesOfLen(_)
NamesOfLen(n) ==
    IF n = 0 THEN {<<>>}
    ELSE {Append(s, c) : s \in NamesOfLen(n - 1), c \in NameChars}

Names == UNION {NamesOfLen(n) : n \in 0..MaxNameLen}

\* sizeof(entry->name)
NameSize == 64

\* strrchr(src, '.'): the index of the last dot, 0 if there is none
LastDot(src) ==
    IF \E i \in DOMAIN src : src[i] = "."
    THEN CHOOSE i \in DOMAIN src : src[i] = "." /\ \A j \in DOMAIN src : src[j] = "." => j <= i
    ELSE 0

\* strstr(name, ".<word>") != NULL
HasSuffixText(name, word) ==
    \E i \in DOMAIN name : i < Len(name) /\ name[i] = "." /\ name[i + 1] = word

\* strncpy(dest, src, n) of a whole name
Strncpy(src, n) == IF Len(src) > n THEN SubSeq(src, 1, n) ELSE src

copy_base_name(src, destsize) ==
    LET dot == LastDot(src)
    IN  IF dot > 1
        THEN SubSeq(src, 1, IF dot - 1 >= destsize THEN destsize - 1 ELSE dot - 1)
        ELSE Strncpy(src, destsize - 1)

\* the name enumerate_libraries and enumerate_resources store for a node
StoredName(name, word) ==
    IF HasSuffixText(name, word)
    THEN copy_base_name(name, NameSize)
    ELSE Strncpy(name, NameSize)

\* the name enumerate_devices stores: the same, then copy_base_name again
StoredDeviceName(name) == copy_base_name(name, NameSize)

\* a node without a name
Unknown == <<"(unknown)">>

EnumerateLibrariesEntry ==
    /\ calc = NoCalc
    /\ \/ \E name \in Names :
            calc' = [fn |-> "enumerate_libraries", in |-> name,
                     out |-> StoredName(name, "library")]
       \/ calc' = [fn |-> "enumerate_libraries", in |-> "NULL", out |-> Unknown]
    /\ UNCHANGED calcRest
    /\ BenchFrame

EnumerateDevicesEntry ==
    /\ calc = NoCalc
    /\ \/ \E name \in Names :
            calc' = [fn |-> "enumerate_devices", in |-> name,
                     out |-> StoredDeviceName(name)]
       \/ calc' = [fn |-> "enumerate_devices", in |-> "NULL", out |-> Unknown]
    /\ UNCHANGED calcRest
    /\ BenchFrame

EnumerateResourcesEntry ==
    /\ calc = NoCalc
    /\ \/ \E name \in Names :
            calc' = [fn |-> "enumerate_resources", in |-> name,
                     out |-> StoredName(name, "resource")]
       \/ calc' = [fn |-> "enumerate_resources", in |-> "NULL", out |-> Unknown]
    /\ UNCHANGED calcRest
    /\ BenchFrame

----------------------------------------------------------------------------
(* software.c: enumerate_libraries and sort_software_list, the whole list *)

\* the capacity of a SoftwareList, kept small
MAX_SOFTWARE_ENTRIES == 4

\* the most libraries on the system's library list
MaxLibs == 5

\* library names, by their rank in strcmp order
LibRanks == 1..3

RECURSIVE LibListsOfLen(_)
LibListsOfLen(n) ==
    IF n = 0 THEN {<<>>}
    ELSE {Append(l, r) : l \in LibListsOfLen(n - 1), r \in LibRanks}

LibLists == UNION {LibListsOfLen(n) : n \in 0..MaxLibs}

\* hw_info's boot-ROM version and the version of a patch loaded over it
\* (0: none detected)
KickInfos ==
    [kickstart_version : {39, 40}, kickstart_revision : {68},
     kickstart_patch_version : {0, 40, 47}, kickstart_patch_revision : {0, 68, 100}]

LibraryEntry(rank) == [kind |-> "library", name |-> rank]

KickstartEntry == [kind |-> "kickstart", name |-> 0]

KickUpdateEntry == [kind |-> "kick update", name |-> 0]

RECURSIVE WalkLibraries(_, _)
\* the walk over the library list: a node is stored while there is room
WalkLibraries(libList, entries) ==
    IF libList = <<>> THEN entries
    ELSE WalkLibraries(Tail(libList),
                       IF Len(entries) < MAX_SOFTWARE_ENTRIES
                       THEN Append(entries, LibraryEntry(Head(libList)))
                       ELSE entries)

\* compare_entries(a, b) > 0
compare_entries_gt(a, b) == a.name > b.name

RECURSIVE BubbleInner(_, _, _)
\* the inner loop of the bubble sort, j (counted from 1) up to last
BubbleInner(entries, j, last) ==
    IF j > last THEN entries
    ELSE BubbleInner(IF compare_entries_gt(entries[j], entries[j + 1])
                     THEN [entries EXCEPT ![j] = entries[j + 1], ![j + 1] = entries[j]]
                     ELSE entries,
                     j + 1, last)

RECURSIVE BubbleOuter(_, _)
\* the outer loop, i counted from 0
BubbleOuter(entries, i) ==
    IF i >= Len(entries) - 1 THEN entries
    ELSE BubbleOuter(BubbleInner(entries, 1, Len(entries) - i - 1), i + 1)

sort_software_list(entries) ==
    IF Len(entries) > 1 THEN BubbleOuter(entries, 0) ELSE entries

\* the test that lets the "kick update" entry in
HasKickUpdate(hw) ==
    /\ hw.kickstart_version # hw.kickstart_patch_version
    /\ hw.kickstart_revision # hw.kickstart_patch_revision
    /\ 0 # hw.kickstart_patch_version
    /\ 0 # hw.kickstart_patch_revision
    /\ hw.kickstart_version >= 40

\* shift all entries by one position and store e at position 0
InsertFirst(e, entries) == <<e>> \o entries

\* enumerate_libraries that inserts the "kickstart" entry before the update
enumerate_libraries_kickfirst(libList, hw) ==
    LET sorted == sort_software_list(WalkLibraries(libList, <<>>))
    IN  IF Len(sorted) + 1 < MAX_SOFTWARE_ENTRIES
        THEN LET base == InsertFirst(KickstartEntry, sorted)
             IN  IF HasKickUpdate(hw) THEN InsertFirst(KickUpdateEntry, base) ELSE base
        ELSE sorted

\* enumerate_libraries: libraries_list.entries[0 .. count-1] when it returns
enumerate_libraries(libList, hw) ==
    LET sorted == sort_software_list(WalkLibraries(libList, <<>>))
    IN  IF Len(sorted) + 1 < MAX_SOFTWARE_ENTRIES
        THEN LET updated == IF HasKickUpdate(hw)
                            THEN InsertFirst(KickUpdateEntry, sorted) ELSE sorted
             IN  InsertFirst(KickstartEntry, updated)
        ELSE sorted

EnumerateLibrariesList ==
    /\ calc = NoCalc
    /\ \E libList \in LibLists, hw \in KickInfos :
        calc' = [fn |-> "libraries_list", in |-> libList, hw |-> hw,
                 out |-> enumerate_libraries(libList, hw)]
    /\ UNCHANGED calcRest
    /\ BenchFrame

----------------------------------------------------------------------------
(* benchmark.c: get_mhz_cpu; hardware.c: generate_comment *)

MAX_MULTIPLY == 1000
MIN_MHZ_MEASURE == 2000
CPULOOPS == 14680
BASE_FACTOR == 136000

\* measure_loop_overhead(count): 0 without the E-clock timer or for no
\* loops, else the microseconds the loops took on this machine
measure_loop_overhead(count, timer, loopsPerUs) ==
    IF ~timer \/ count = 0 THEN 0 ELSE count \div loopsPerUs

Is040Class(cpu) ==
    cpu \in {CPU_68040, CPU_68EC040, CPU_68LC040, CPU_68060, CPU_68EC060,
             CPU_68LC060, CPU_68080}

maxMultiplier(cpu) == IF Is040Class(cpu) THEN MAX_MULTIPLY * 16 ELSE MAX_MULTIPLY

startMultiplier(cpu) == IF Is040Class(cpu) THEN MAX_MULTIPLY \div 16 ELSE 1

RECURSIVE MhzLoopFrom(_, _, _, _, _, _)
\* the measuring loop of get_mhz_cpu: multiplier and count when it ends, and
\* ran, the multiplier of the run that measured count (0: no run)
MhzLoopFrom(multiplier, count, ran, max, timer, loopsPerUs) ==
    IF multiplier <= max /\ count < MIN_MHZ_MEASURE
    THEN LET c == measure_loop_overhead(CPULOOPS * multiplier, timer, loopsPerUs)
         IN  IF multiplier >= max \/ c >= MIN_MHZ_MEASURE
             THEN [multiplier |-> multiplier, count |-> c, ran |-> multiplier]
             ELSE MhzLoopFrom(multiplier * 2, c, multiplier, max, timer, loopsPerUs)
    ELSE [multiplier |-> multiplier, count |-> count, ran |-> ran]

MhzLoop(multiplier, count, max, timer, loopsPerUs) ==
    MhzLoopFrom(multiplier, count, 0, max, timer, loopsPerUs)

FPULOOPS == 1200

RECURSIVE FpuMhzLoop(_, _, _, _, _)
\* the measuring loop of get_mhz_fpu (the timer is open): each run times
\* FPULOOPS * multiplier divisions and subtracts the loop overhead
FpuMhzLoop(multiplier, count, ran, divsPerUs, loopsPerUs) ==
    IF multiplier <= MAX_MULTIPLY /\ count < MIN_MHZ_MEASURE
    THEN LET loop == FPULOOPS * multiplier
             elapsed == loop \div divsPerUs
             overhead == measure_loop_overhead(loop, TRUE, loopsPerUs)
             c == IF elapsed > overhead THEN elapsed - overhead ELSE elapsed
         IN  IF multiplier >= MAX_MULTIPLY \/ c >= MIN_MHZ_MEASURE
             THEN [multiplier |-> multiplier, count |-> c, ran |-> multiplier]
             ELSE FpuMhzLoop(multiplier * 2, c, multiplier, divsPerUs, loopsPerUs)
    ELSE [multiplier |-> multiplier, count |-> count, ran |-> ran]

\* the empirical correction: the factor of tmp and the factor of count
TmpFactor(cpu, fast) ==
    IF cpu \in {CPU_68000, CPU_68010} THEN (IF fast THEN 204 ELSE 282)
    ELSE IF cpu \in {CPU_68020, CPU_68EC020, CPU_68030, CPU_68EC030} THEN 88
    ELSE IF cpu \in {CPU_68040, CPU_68EC040, CPU_68LC040} THEN 3253
    ELSE IF cpu \in {CPU_68060, CPU_68EC060, CPU_68LC060, CPU_68080} THEN 1085
    ELSE 100

CountFactor(cpu, mmu, ss) ==
    IF cpu \in {CPU_68040, CPU_68EC040, CPU_68LC040} THEN 100
    ELSE IF cpu \in {CPU_68060, CPU_68EC060, CPU_68LC060, CPU_68080}
         THEN (IF mmu \/ cpu = CPU_68080 THEN (IF ss THEN 100 ELSE 50) ELSE 20)
    ELSE 1

\* the estimate used when nothing was measured
FallbackMhz(cpu) ==
    IF cpu \in {CPU_68000, CPU_68010} THEN 709
    ELSE IF cpu \in {CPU_68020, CPU_68EC020} THEN 1418
    ELSE IF cpu \in {CPU_68030, CPU_68EC030} THEN 2500
    ELSE IF cpu \in {CPU_68040, CPU_68LC040} THEN 2500
    ELSE IF cpu \in {CPU_68060, CPU_68EC060, CPU_68LC060} THEN 5000
    ELSE IF cpu = CPU_68080 THEN 8000
    ELSE 709

\* get_mhz_cpu without the estimate: 0 when nothing was measured
get_mhz_cpu_nofallback(cpu, timer, loopsPerUs, fast, mmu, ss) ==
    LET l == MhzLoop(startMultiplier(cpu), 0, maxMultiplier(cpu), timer, loopsPerUs)
    IN  IF l.count > 0
        THEN Wrap32(MulDiv(BASE_FACTOR * TmpFactor(cpu, fast), l.multiplier,
                           l.count * CountFactor(cpu, mmu, ss)).q)
        ELSE <<0, 0>>

get_mhz_cpu(cpu, timer, loopsPerUs, fast, mmu, ss) ==
    LET l == MhzLoop(startMultiplier(cpu), 0, maxMultiplier(cpu), timer, loopsPerUs)
    IN  IF l.count > 0
        THEN Wrap32(MulDiv(BASE_FACTOR * TmpFactor(cpu, fast), l.multiplier,
                           l.count * CountFactor(cpu, mmu, ss)).q)
        ELSE WideOf(FallbackMhz(cpu))

\* hardware.c generate_comment: the comment for a CPU type and frequency
generate_comment_hw(cpu, cpu_mhz) ==
    IF cpu >= CPU_68060 /\ WideGE(cpu_mhz, <<0, 5000>>) THEN "MSG_COMMENT_BLAZING"
    ELSE IF cpu >= CPU_68060 /\ WideGE(cpu_mhz, <<0, 2500>>) THEN "MSG_COMMENT_VERY_FAST"
    ELSE IF cpu >= CPU_68040 /\ WideGE(cpu_mhz, <<0, 2500>>) THEN "MSG_COMMENT_VERY_FAST"
    ELSE IF cpu >= CPU_68030 /\ WideGE(cpu_mhz, <<0, 2500>>) THEN "MSG_COMMENT_FAST"
    ELSE IF cpu >= CPU_68020 /\ WideGE(cpu_mhz, <<0, 1400>>) THEN "MSG_COMMENT_GOOD"
    ELSE IF cpu <= CPU_68010 THEN "MSG_COMMENT_CLASSIC"
    ELSE "MSG_COMMENT_DEFAULT"

\* the loops per microsecond of the machines measured
LoopRates == {1, 8, 500, 10000000}

\* get_mhz_cpu, and generate_comment for the frequency it returned
GetMhzCpu ==
    /\ calc = NoCalc
    /\ \E cpu \in CpuTypes, timer \in BOOLEAN, rate \in LoopRates,
          fast \in BOOLEAN, mmu \in BOOLEAN, ss \in BOOLEAN :
        LET mhz == get_mhz_cpu(cpu, timer, rate, fast, mmu, ss)
            l == MhzLoop(startMultiplier(cpu), 0, maxMultiplier(cpu), timer, rate)
        IN  calc' = [fn |-> "get_mhz_cpu", cpu_type |-> cpu,
                     count |-> l.count, multiplier |-> l.multiplier, ran |-> l.ran,
                     ceiling |-> maxMultiplier(cpu),
                     out |-> mhz, comment |-> generate_comment_hw(cpu, mhz)]
    /\ UNCHANGED calcRest
    /\ BenchFrame

\* the divisions per microsecond of the FPUs measured
DivRates == {1, 2, 40, 1000}

\* get_mhz_fpu on a discrete FPU, up to the end of its measuring loop
GetMhzFpuLoop ==
    /\ calc = NoCalc
    /\ \E divs \in DivRates, rate \in LoopRates :
        LET l == FpuMhzLoop(1, 0, 0, divs, rate)
        IN  calc' = [fn |-> "get_mhz_fpu", count |-> l.count,
                     multiplier |-> l.multiplier, ran |-> l.ran,
                     ceiling |-> MAX_MULTIPLY]
    /\ UNCHANGED calcRest
    /\ BenchFrame

----------------------------------------------------------------------------
(* benchmark.c: generate_comment, get_max_dhrystones *)

\* generate_comment with inclusive thresholds
generate_comment_inclusive(valid, dhrystones) ==
    IF valid
    THEN LET c0 == "MSG_COMMENT_DEFAULT"
             c1 == IF WideGE(dhrystones, WideOf(980)) THEN "MSG_COMMENT_CLASSIC" ELSE c0
             c2 == IF WideGE(dhrystones, WideOf(1300)) THEN "MSG_COMMENT_GOOD" ELSE c1
             c3 == IF WideGE(dhrystones, WideOf(2000)) THEN "MSG_COMMENT_FAST" ELSE c2
             c4 == IF WideGE(dhrystones, WideOf(7000)) THEN "MSG_COMMENT_VERY_FAST" ELSE c3
             c5 == IF WideGE(dhrystones, WideOf(30000)) THEN "MSG_COMMENT_BLAZING" ELSE c4
             c6 == IF WideGE(dhrystones, WideOf(80000)) THEN "MSG_COMMENT_RIDICULUS" ELSE c5
             c7 == IF WideGE(dhrystones, WideOf(130000)) THEN "MSG_COMMENT_LUDICROUS" ELSE c6
             c8 == IF WideGE(dhrystones, WideOf(200000)) THEN "MSG_COMMENT_WARP11" ELSE c7
         IN  c8
    ELSE "MSG_NA"

\* the comment generate_comment stores in hw_info.comment: each test that
\* holds overwrites the comment chosen so far
generate_comment(valid, dhrystones) ==
    IF valid
    THEN LET c0 == "MSG_COMMENT_DEFAULT"
             c1 == IF WideGT(dhrystones, WideOf(980)) THEN "MSG_COMMENT_CLASSIC" ELSE c0
             c2 == IF WideGT(dhrystones, WideOf(1300)) THEN "MSG_COMMENT_GOOD" ELSE c1
             c3 == IF WideGT(dhrystones, WideOf(2000)) THEN "MSG_COMMENT_FAST" ELSE c2
             c4 == IF WideGT(dhrystones, WideOf(7000)) THEN "MSG_COMMENT_VERY_FAST" ELSE c3
             c5 == IF WideGT(dhrystones, WideOf(30000)) THEN "MSG_COMMENT_BLAZING" ELSE c4
             c6 == IF WideGT(dhrystones, WideOf(80000)) THEN "MSG_COMMENT_RIDICULUS" ELSE c5
             c7 == IF WideGT(dhrystones, WideOf(130000)) THEN "MSG_COMMENT_LUDICROUS" ELSE c6
             c8 == IF WideGT(dhrystones, WideOf(200000)) THEN "MSG_COMMENT_WARP11" ELSE c7
         IN  c8
    ELSE "MSG_NA"

\* Dhrystone results around every threshold and reference value
DhryValues ==
    {0, 500, 979, 980, 981, 1000, 1300, 1301, 1500, 2000, 2001, 2500, 7000,
     7001, 8000, 30000, 30001, 35000, 80000, 80001, 85000, 90999, 91000,
     91001, 130000, 130001, 135000, 200000, 200001, 250000}

DhryResults == {WideOf(n) : n \in DhryValues} \cup Ulongs

GenerateComment ==
    /\ calc = NoCalc
    /\ \E valid \in BOOLEAN, d \in DhryResults :
        calc' = [fn |-> "generate_comment", valid |-> valid, in |-> d,
                 out |-> generate_comment(valid, d)]
    /\ UNCHANGED calcRest
    /\ BenchFrame

NUM_REFERENCE_SYSTEMS == 6

\* reference_systems[i].dhrystones
reference_dhrystones == <<1001, 1408, 2550, 8300, 32809, 91000>>

RECURSIVE MaxReference(_, _, _)
\* the loop over the first n reference systems, from index i on
MaxReference(i, max_val, n) ==
    IF i > n THEN max_val
    ELSE MaxReference(i + 1,
                      IF WideGT(WideOf(reference_dhrystones[i]), max_val)
                      THEN WideOf(reference_dhrystones[i]) ELSE max_val,
                      n)

\* get_max_dhrystones with a loop that stops one reference system short
get_max_dhrystones_short(results) ==
    LET ref == MaxReference(1, <<0, 0>>, NUM_REFERENCE_SYSTEMS - 1)
        cur == IF results.benchmarks_valid /\ WideGT(results.dhrystones, ref)
               THEN results.dhrystones ELSE ref
    IN  IF WideGT(WideOf(1000), cur) THEN WideOf(1000) ELSE cur

get_max_dhrystones(results) ==
    LET ref == MaxReference(1, <<0, 0>>, NUM_REFERENCE_SYSTEMS)
        cur == IF results.benchmarks_valid /\ WideGT(results.dhrystones, ref)
               THEN results.dhrystones ELSE ref
    IN  IF WideGT(WideOf(1000), cur) THEN WideOf(1000) ELSE cur

NextCalc ==
    \/ CalculateMips
    \/ DetermineMemLocation
    \/ FormatSize
    \/ EnumerateLibrariesEntry
    \/ EnumerateDevicesEntry
    \/ EnumerateResourcesEntry
    \/ EnumerateLibrariesList
    \/ GetMhzCpu
    \/ GetMhzFpuLoop
    \/ GenerateComment


----------------------------------------------------------------------------
(* benchmark.c: run_benchmarks; software.c: enumerate_libraries *)

\* the libraries that matter to hw_info.fpu_enabled
FpuLibraries == {"68040.library", "68060.library"}

\* the results run_mflops_benchmark measures
MflopsValues == {0, 285}

\* enumerate_libraries walking a library list that holds the libraries in
\* present: the FPU is enabled when the library of its own kind is there
EnumerateLibraries ==
    /\ bench.pc = "idle"
    /\ \E present \in SUBSET FpuLibraries :
        bench' = [bench EXCEPT
            !.seen = @ \cup present,
            !.fpu_enabled =
                \/ @
                \/ ("68040.library" \in present /\ bench.fpu_type = FPU_68040)
                \/ ("68060.library" \in present /\ bench.fpu_type = FPU_68060)]
    /\ UNCHANGED runRest
    /\ BenchFrame

\* run_benchmarks: memset(&bench_results, 0, ...)
RunBenchmarksClear ==
    /\ bench.pc = "idle"
    /\ bench' = [bench EXCEPT !.pc = "dhrystone", !.results = NoResults,
                              !.trace = <<"clear">>]
    /\ UNCHANGED runRest
    /\ BenchFrame

\* bench_results.dhrystones = run_dhrystone()
RunBenchmarksDhrystone ==
    /\ bench.pc = "dhrystone"
    /\ \E d \in DhryResults :
        bench' = [bench EXCEPT !.pc = "mips", !.results.dhrystones = d,
                                  !.trace = Append(@, "dhrystone")]
    /\ UNCHANGED runRest
    /\ BenchFrame

\* bench_results.mips = calculate_mips(bench_results.dhrystones)
RunBenchmarksMips ==
    /\ bench.pc = "mips"
    /\ bench' = [bench EXCEPT !.pc = "mflops",
                              !.results.mips = calculate_mips(bench.results.dhrystones),
                              !.trace = Append(@, "mips")]
    /\ UNCHANGED runRest
    /\ BenchFrame

\* the floating-point benchmark, run when an FPU is there and enabled
RunBenchmarksMflops ==
    /\ bench.pc = "mflops"
    /\ IF bench.fpu_type # FPU_NONE /\ bench.fpu_enabled
       THEN \E f \in MflopsValues :
                bench' = [bench EXCEPT !.pc = "memory", !.results.mflops = f,
                                          !.trace = Append(@, "mflops")]
       ELSE bench' = [bench EXCEPT !.pc = "memory"]
    /\ UNCHANGED runRest
    /\ BenchFrame

\* run_memory_speed_tests
RunBenchmarksMemory ==
    /\ bench.pc = "memory"
    /\ bench' = [bench EXCEPT !.pc = "mhz", !.results.memory = TRUE,
                              !.trace = Append(@, "memory")]
    /\ UNCHANGED runRest
    /\ BenchFrame

\* hw_info.cpu_mhz = get_mhz_cpu(); hw_info.fpu_mhz = get_mhz_fpu()
RunBenchmarksMhz ==
    /\ bench.pc = "mhz"
    /\ bench' = [bench EXCEPT !.pc = "valid", !.cpu_mhz = TRUE,
                              !.trace = Append(@, "mhz")]
    /\ UNCHANGED runRest
    /\ BenchFrame

\* bench_results.benchmarks_valid = TRUE; generate_comment()
RunBenchmarksValid ==
    /\ bench.pc = "valid"
    /\ bench' = [bench EXCEPT !.pc = "idle", !.results.benchmarks_valid = TRUE,
                              !.comment = generate_comment(TRUE, bench.results.dhrystones),
                              !.trace = Append(@, "valid")]
    /\ UNCHANGED runRest
    /\ BenchFrame

\* after detect_hardware: any FPU type found, hw_info otherwise zeroed
InitBench ==
    /\ dhry = NoDhry
    /\ calc = NoCalc
    /\ \E t \in FpuTypes : bench = [NoBench EXCEPT !.fpu_type = t]

NextBench ==
    \/ EnumerateLibraries
    \/ RunBenchmarksClear
    \/ RunBenchmarksDhrystone
    \/ RunBenchmarksMips
    \/ RunBenchmarksMflops
    \/ RunBenchmarksMemory
    \/ RunBenchmarksMhz
    \/ RunBenchmarksValid
----------------------------------------------------------------------------
(* main.c: CloseWindowSafely and StripIntuiMessages *)

\* the most messages ever sent to the port
MaxMsgs == 3

\* the windows that share the port: the one being closed and another
MsgWindows == {"win", "other"}

\* the window is open and receives messages; CloseWindowSafely not yet called
NoClose ==
    [pc |-> "idle", forbid |-> 0, port |-> <<>>, sent |-> <<>>, cursor |-> 1,
     removed |-> <<>>, replied |-> <<>>, UserPort |-> TRUE, IDCMP |-> TRUE,
     open |-> TRUE, trace |-> <<>>]

CloseFrame == UNCHANGED <<cacheVars, battVars, shellVars, probeVars, dhry, calc, bench, detVars>>

\* Intuition, another task, sends a message to the port: to a window whose
\* IDCMP flags are set and whose UserPort is this port
IntuitionSends ==
    /\ cw.forbid = 0
    /\ Len(cw.sent) < MaxMsgs
    /\ \E w \in MsgWindows :
        /\ w = "win" => (cw.open /\ cw.IDCMP /\ cw.UserPort)
        /\ LET m == [id |-> Len(cw.sent) + 1, IDCMPWindow |-> w]
           IN  cw' = [cw EXCEPT !.port = Append(@, m), !.sent = Append(@, m)]
    /\ CloseFrame

\* close_display calls CloseWindowSafely(app->window)
CloseWindowSafelyCall ==
    /\ cw.pc = "idle"
    /\ cw' = [cw EXCEPT !.pc = "Forbid"]
    /\ CloseFrame

\* Forbid()
CwsForbid ==
    /\ cw.pc = "Forbid"
    /\ cw' = [cw EXCEPT !.pc = "Strip", !.forbid = @ + 1, !.trace = Append(@, "Forbid")]
    /\ CloseFrame

\* StripIntuiMessages: msg = mp->mp_MsgList.lh_Head
StripStart ==
    /\ cw.pc = "Strip"
    /\ cw' = [cw EXCEPT !.pc = "StripLoop", !.cursor = 1, !.trace = Append(@, "Strip")]
    /\ CloseFrame

\* the message with every window's messages taken for this window's
IsForWindow_any(msg) == TRUE

\* msg->IDCMPWindow == win
IsForWindow(msg) == msg.IDCMPWindow = "win"

\* a sequence without its i-th element
RemoveAt(s, i) == SubSeq(s, 1, i - 1) \o SubSeq(s, i + 1, Len(s))

\* one turn of the while loop: Remove and ReplyMsg a message of the window,
\* then go on with the successor read before
StripStep ==
    /\ cw.pc = "StripLoop"
    /\ cw.cursor <= Len(cw.port)
    /\ LET msg == cw.port[cw.cursor]
       IN  IF IsForWindow(msg)
           THEN cw' = [cw EXCEPT !.port = RemoveAt(@, cw.cursor),
                                 !.removed = Append(@, msg.id),
                                 !.replied = Append(@, msg.id)]
           ELSE cw' = [cw EXCEPT !.cursor = @ + 1]
    /\ CloseFrame

\* the successor is NULL: StripIntuiMessages returns
StripEnd ==
    /\ cw.pc = "StripLoop"
    /\ cw.cursor > Len(cw.port)
    /\ cw' = [cw EXCEPT !.pc = "ClearUserPort"]
    /\ CloseFrame

\* win->UserPort = NULL
ClearUserPort ==
    /\ cw.pc = "ClearUserPort"
    /\ cw' = [cw EXCEPT !.pc = "ModifyIDCMP", !.UserPort = FALSE,
                        !.trace = Append(@, "ClearUserPort")]
    /\ CloseFrame

\* ModifyIDCMP(win, 0L)
CwsModifyIDCMP ==
    /\ cw.pc = "ModifyIDCMP"
    /\ cw' = [cw EXCEPT !.pc = "Permit", !.IDCMP = FALSE,
                        !.trace = Append(@, "ModifyIDCMP")]
    /\ CloseFrame

\* Permit()
CwsPermit ==
    /\ cw.pc = "Permit"
    /\ cw' = [cw EXCEPT !.pc = "CloseWindow", !.forbid = @ - 1,
                        !.trace = Append(@, "Permit")]
    /\ CloseFrame

\* CloseWindow(win)
CwsCloseWindow ==
    /\ cw.pc = "CloseWindow"
    /\ cw' = [cw EXCEPT !.pc = "done", !.open = FALSE,
                        !.trace = Append(@, "CloseWindow")]
    /\ CloseFrame

RECURSIVE MsgQueues(_)
\* the message queues of n messages, numbered in the order sent
MsgQueues(n) ==
    IF n = 0 THEN {<<>>}
    ELSE {Append(q, [id |-> n, IDCMPWindow |-> w]) : q \in MsgQueues(n - 1), w \in MsgWindows}

\* the window is open, with any messages waiting on the port
InitClose ==
    \E n \in 0..MaxMsgs : \E q \in MsgQueues(n) :
        cw = [NoClose EXCEPT !.port = q, !.sent = q]

NextClose ==
    \/ IntuitionSends
    \/ CloseWindowSafelyCall
    \/ CwsForbid
    \/ StripStart
    \/ StripStep
    \/ StripEnd
    \/ ClearUserPort
    \/ CwsModifyIDCMP
    \/ CwsPermit
    \/ CwsCloseWindow

----------------------------------------------------------------------------
(* hardware.c: detect_hardware and its sub-detections, one pass *)

\* the values of the power-up detect register before the pass
PowerValues == {0, 5, 128, 133}

\* what is found at the address of the power-up detect register: a register
\* whose bit 7 reads back as written (Fat Gary), one that stores the byte but
\* whose bit 7 always reads 0 or always reads 1, or nothing (writes are lost
\* and reads float)
PowerKinds == {"fat", "bit7_reads_0", "bit7_reads_1", "none"}

\* the machines detected
Machines ==
    [cpu : {"68000", "68010", "68EC020", "68020", "68030", "68040"},
     kick_version : {40},
     mirror : {0, 40},
     a1000 : BOOLEAN,
     power : PowerKinds,
     gayle : BOOLEAN,
     ramsey : {0, 13, 255},
     clock : {"CLOCK_NONE", "CLOCK_MSM6242", "CLOCK_RP5C01"},
     battOpen : BOOLEAN,
     battFail : {{}, {"scsi_id"}, {"scan_luns"}}]

\* hw_info after memset(&hw_info, 0, sizeof(HardwareInfo))
ZeroHwInfo ==
    [cpu_type |-> "0", cpu_mhz |-> "0", fpu_type |-> "0", mmu_type |-> "0",
     gary_type |-> "0", ramsey_rev |-> 0, sdmac_rev |-> "0", clock_type |-> "0",
     valid_data |-> FALSE, kickstart_version |-> 0]

NoDetect ==
    [pc |-> "idle",
     machine |-> [cpu |-> "68000", kick_version |-> 40, mirror |-> 0, a1000 |-> FALSE,
                  power |-> "none", gayle |-> FALSE, ramsey |-> 0,
                  clock |-> "CLOCK_NONE", battOpen |-> FALSE, battFail |-> {}],
     hw |-> ZeroHwInfo, assigned |-> {}, reads |-> {}, trace |-> <<>>,
     power |-> 0, powerOrig |-> 0, garyWrote |-> FALSE, garyPath |-> "none",
     battRead |-> "none"]

DetectFrame == UNCHANGED <<cacheVars, battVars, shellVars, probeVars, dhry, calc, bench, closeVars>>

\* the reads of hw_info fields a step makes, each with whether the field has
\* been assigned in this pass
ReadsOf(step, fields) ==
    {[by |-> step, field |-> f, assigned |-> f \in det.assigned] : f \in fields}

\* a sub-detection has run: what it read and what it assigned
Ran(step, readFields, hw, next) ==
    [det EXCEPT !.pc = next, !.hw = hw,
                !.reads = @ \cup ReadsOf(step, readFields),
                !.trace = Append(@, step)]

\* detect_hardware: memset(&hw_info, 0, ...)
DetectHardwareStart ==
    /\ det.pc = "start"
    /\ det' = [det EXCEPT !.pc = "detect_cpu", !.hw = ZeroHwInfo, !.assigned = {},
                          !.reads = {}, !.trace = <<>>]
    /\ DetectFrame

\* the CPU has the 68020/030 instruction-cache freeze bit and no burst bit
IsPlain020(m) == m.cpu \in {"68EC020", "68020"}

\* detect_cpu's classification; on the 68020 path it compares
\* hw_info.kickstart_version with the word at the 24-bit mirror of the ROM
detect_cpu_type(m, kickstart_version) ==
    IF IsPlain020(m)
    THEN (IF kickstart_version = m.mirror THEN "CPU_68EC020" ELSE "CPU_68020")
    ELSE IF m.cpu = "68000" THEN "CPU_68000"
    ELSE IF m.cpu = "68010" THEN "CPU_68010"
    ELSE IF m.cpu = "68030" THEN "CPU_68030"
    ELSE "CPU_68040"

\* detect_cpu
DetectCpu ==
    /\ det.pc = "detect_cpu"
    /\ det' = [Ran("detect_cpu",
                   IF IsPlain020(det.machine) THEN {"kickstart_version"} ELSE {},
                   [det.hw EXCEPT
                       !.cpu_type = detect_cpu_type(det.machine, det.hw.kickstart_version),
                       !.cpu_mhz = "set"],
                   "detect_fpu")
               EXCEPT !.assigned = @ \cup {"cpu_type", "cpu_mhz"}]
    /\ DetectFrame

\* detect_fpu, detect_mmu, read_vbr: each reads hw_info.cpu_type
DetectFpu ==
    /\ det.pc = "detect_fpu"
    /\ det' = [Ran("detect_fpu", {"cpu_type"}, [det.hw EXCEPT !.fpu_type = "set"],
                   "detect_mmu")
               EXCEPT !.assigned = @ \cup {"fpu_type"}]
    /\ DetectFrame

DetectMmu ==
    /\ det.pc = "detect_mmu"
    /\ det' = [Ran("detect_mmu", {"cpu_type"}, [det.hw EXCEPT !.mmu_type = "set"],
                   "read_vbr")
               EXCEPT !.assigned = @ \cup {"mmu_type"}]
    /\ DetectFrame

ReadVbr ==
    /\ det.pc = "read_vbr"
    /\ det' = Ran("read_vbr", {"cpu_type"}, det.hw, "detect_chipset")
    /\ DetectFrame

\* detect_chipset reads no field of hw_info set by another step
DetectChipset ==
    /\ det.pc = "detect_chipset"
    /\ det' = Ran("detect_chipset", {}, det.hw, "detect_gary")
    /\ DetectFrame

\* what a byte read of the power-up detect register returns; float is what an
\* empty bus shows
PowerRead(kind, stored, float) ==
    IF kind = "fat" THEN stored
    ELSE IF kind = "bit7_reads_0" THEN stored % 128
    ELSE IF kind = "bit7_reads_1" THEN (stored % 128) + 128
    ELSE float

\* the register after a byte write
PowerWrite(kind, stored, value) == IF kind = "none" THEN stored ELSE value

\* detect_gary: the A1000 mirror test, then the power-up detect register is
\* saved, written 0x80 and read, written 0 and read, and written back when
\* both reads followed the writes
detect_gary(m, stored, float1, float2) ==
    IF m.a1000 THEN [gary_type |-> "GARY_A1000", power |-> stored, wrote |-> FALSE,
                     path |-> "a1000"]
    ELSE LET val == PowerRead(m.power, stored, float1)
             s1 == PowerWrite(m.power, stored, 128)
             t1 == PowerRead(m.power, s1, float1)
             s2 == PowerWrite(m.power, s1, 0)
             t2 == PowerRead(m.power, s2, float2)
             rest == IF m.gayle THEN "GAYLE" ELSE "GARY_A500"
         IN  IF t1 >= 128
             THEN IF t2 < 128
                  THEN [gary_type |-> "FAT_GARY", power |-> PowerWrite(m.power, s2, val),
                        wrote |-> TRUE, path |-> "fat"]
                  ELSE [gary_type |-> rest, power |-> s2, wrote |-> TRUE,
                        path |-> "clear read-back failed"]
             ELSE [gary_type |-> rest, power |-> s1, wrote |-> TRUE,
                   path |-> "set read-back failed"]

\* detect_system_chips: detect_gary
DetectGary ==
    /\ det.pc = "detect_gary"
    /\ \E float1 \in {0, 128}, float2 \in {0, 128} :
        LET g == detect_gary(det.machine, det.power, float1, float2)
        IN  det' = [Ran("detect_gary", {}, [det.hw EXCEPT !.gary_type = g.gary_type],
                        "detect_ramsey")
                    EXCEPT !.assigned = @ \cup {"gary_type"},
                           !.powerOrig = det.power, !.power = g.power,
                           !.garyWrote = g.wrote, !.garyPath = g.path]
    /\ DetectFrame

\* detect_ramsey: no Fat Gary, no Ramsey; a revision of 0xFF counts as none
detect_ramsey(m, gary_type) ==
    IF gary_type # "FAT_GARY" THEN 0
    ELSE IF m.ramsey = 255 THEN 0 ELSE m.ramsey

DetectRamsey ==
    /\ det.pc = "detect_ramsey"
    /\ det' = [Ran("detect_ramsey", {"gary_type"},
                   [det.hw EXCEPT !.ramsey_rev = detect_ramsey(det.machine, det.hw.gary_type)],
                   "detect_sdmac")
               EXCEPT !.assigned = @ \cup {"ramsey_rev"}]
    /\ DetectFrame

\* detect_sdmac probes only behind a Ramsey; then detect_system_chips
\* derives the expansion slots from ramsey_rev and gary_type
DetectSdmac ==
    /\ det.pc = "detect_sdmac"
    /\ det' = [Ran("detect_sdmac", {"ramsey_rev", "gary_type"},
                   [det.hw EXCEPT !.sdmac_rev = "set"], "detect_clock")
               EXCEPT !.assigned = @ \cup {"sdmac_rev"}]
    /\ DetectFrame

\* detect_clock: the clock registers are probed unless Gary is the A1000's
detect_clock(m, gary_type) ==
    IF gary_type # "GARY_A1000" THEN m.clock ELSE "CLOCK_NONE"

DetectClock ==
    /\ det.pc = "detect_clock"
    /\ det' = [Ran("detect_clock", {"gary_type"},
                   [det.hw EXCEPT !.clock_type = detect_clock(det.machine, det.hw.gary_type)],
                   "detect_batt_mem")
               EXCEPT !.assigned = @ \cup {"clock_type"}]
    /\ DetectFrame

\* the stored battery-backed memory of the machine
BattStore == CHOOSE s \in StoreSet : TRUE

\* detect_batt_mem: valid_data = readBattMem(...); valid_data = TRUE
detect_batt_mem(m, clock_type, ramsey_rev) ==
    IF clock_type = "CLOCK_RP5C01" /\ ramsey_rev > 0 /\ m.battOpen
    THEN LET r == readBattMem(ZeroData, BattStore, m.battFail, 1)
         IN  [valid_data |-> TRUE, read |-> IF r.result THEN "ok" ELSE "failed"]
    ELSE [valid_data |-> FALSE, read |-> "none"]

DetectBattMem ==
    /\ det.pc = "detect_batt_mem"
    /\ LET b == detect_batt_mem(det.machine, det.hw.clock_type, det.hw.ramsey_rev)
       IN  det' = [Ran("detect_batt_mem", {"clock_type", "ramsey_rev"},
                       [det.hw EXCEPT !.valid_data = b.valid_data], "detect_frequencies")
                   EXCEPT !.assigned = @ \cup {"valid_data"}, !.battRead = b.read]
    /\ DetectFrame

DetectFrequencies ==
    /\ det.pc = "detect_frequencies"
    /\ det' = Ran("detect_frequencies", {}, det.hw, "refresh_cache_status")
    /\ DetectFrame

\* refresh_cache_status (hardware.c) derives the has_* flags from cpu_type
DetectRefreshCacheStatus ==
    /\ det.pc = "refresh_cache_status"
    /\ det' = Ran("refresh_cache_status", {"cpu_type"}, det.hw, "generate_comment")
    /\ DetectFrame

\* generate_comment (hardware.c) reads cpu_type and cpu_mhz
DetectGenerateComment ==
    /\ det.pc = "generate_comment"
    /\ det' = Ran("generate_comment", {"cpu_type", "cpu_mhz"}, det.hw, "kickstart")
    /\ DetectFrame

\* hw_info.kickstart_version = *KICK_VERSION; detect_hardware returns
DetectKickstart ==
    /\ det.pc = "kickstart"
    /\ det' = [Ran("kickstart", {},
                   [det.hw EXCEPT !.kickstart_version = det.machine.kick_version], "done")
               EXCEPT !.assigned = @ \cup {"kickstart_version"}]
    /\ DetectFrame

\* main is about to call detect_hardware, on any machine
InitDetect ==
    \E m \in Machines, p \in PowerValues :
        /\ m.cpu = "68EC020" <=> m.mirror = m.kick_version
        /\ det = [NoDetect EXCEPT !.pc = "start", !.machine = m, !.power = p,
                                  !.powerOrig = p]

NextDetect ==
    \/ DetectHardwareStart
    \/ DetectCpu
    \/ DetectFpu
    \/ DetectMmu
    \/ ReadVbr
    \/ DetectChipset
    \/ DetectGary
    \/ DetectRamsey
    \/ DetectSdmac
    \/ DetectClock
    \/ DetectBattMem
    \/ DetectFrequencies
    \/ DetectRefreshCacheStatus
    \/ DetectGenerateComment
    \/ DetectKickstart

----------------------------------------------------------------------------
vars == <<cacheVars, battVars, shellVars, probeVars, benchVars>>

CloseIdle == cw = NoClose

DetectIdle == det = NoDetect

Init == CacheIdle /\ BattIdle /\ InitShell /\ ProbeIdle /\ BenchIdle /\ CloseIdle /\ DetectIdle

Next == NextShell

\* the program: main from its entry to its return
Spec == Init /\ [][Next]_vars

\* the cache toggles on every CPU type and register content
InitCacheSpec == InitCache /\ BattIdle /\ InitShell /\ ProbeIdle /\ BenchIdle /\ CloseIdle /\ DetectIdle

SpecCache == InitCacheSpec /\ [][NextCache]_vars

\* the cache-bit conversions over every pattern
InitConvSpec == InitConv /\ BattIdle /\ InitShell /\ ProbeIdle /\ BenchIdle /\ CloseIdle /\ DetectIdle

SpecConv == InitConvSpec /\ [][NextConv]_vars

\* writeBattMem and readBattMem
InitBattSpec == CacheIdle /\ InitBatt /\ InitShell /\ ProbeIdle /\ BenchIdle /\ CloseIdle /\ DetectIdle

SpecBatt == InitBattSpec /\ [][NextBatt]_vars

\* readBattMem under every combination of failing reads
InitBattReadSpec == CacheIdle /\ InitBattRead /\ InitShell /\ ProbeIdle /\ BenchIdle /\ CloseIdle /\ DetectIdle

SpecBattRead == InitBattReadSpec /\ [][NextBattRead]_vars

\* the register probes of hardware detection, interleaved with other tasks
InitProbeSpec == CacheIdle /\ BattIdle /\ InitShell /\ InitProbe /\ BenchIdle /\ CloseIdle /\ DetectIdle

SpecProbe == InitProbeSpec /\ [][NextProbe]_vars


\* run_dhrystone under every sequence of measured times
InitDhrySpec == CacheIdle /\ BattIdle /\ InitShell /\ ProbeIdle /\ InitDhry /\ CloseIdle /\ DetectIdle

SpecDhry == InitDhrySpec /\ [][NextDhry]_vars

\* the helper functions applied to every value of Ulongs
InitCalcSpec == CacheIdle /\ BattIdle /\ InitShell /\ ProbeIdle /\ BenchIdle /\ CloseIdle /\ DetectIdle

SpecCalc == InitCalcSpec /\ [][NextCalc]_vars

\* run_benchmarks, any number of times, on a machine with any FPU
InitBenchSpec == CacheIdle /\ BattIdle /\ InitShell /\ ProbeIdle /\ InitBench /\ CloseIdle /\ DetectIdle

SpecBench == InitBenchSpec /\ [][NextBench]_vars

\* CloseWindowSafely on a window with any messages queued, Intuition beside it
InitCloseSpec == CacheIdle /\ BattIdle /\ InitShell /\ ProbeIdle /\ BenchIdle /\ InitClose /\ DetectIdle

SpecClose == InitCloseSpec /\ [][NextClose]_vars

\* one pass of detect_hardware on every machine
InitDetectSpec == CacheIdle /\ BattIdle /\ InitShell /\ ProbeIdle /\ BenchIdle /\ CloseIdle /\ InitDetect

SpecDetect == InitDetectSpec /\ [][NextDetect]_vars
----------------------------------------------------------------------------
(* Properties of battmem.c *)

WriteCalls(calls) == SelectSeq(calls, LAMBDA c : c.call = "WriteBattMem")

\* the fields a call sequence accessed without success
FailedFields(calls) ==
    {calls[i].field : i \in {j \in 1..Len(calls) : calls[j].err # 0}}

\* the fields a call sequence accessed
CalledFields(calls) ==
    {calls[i].field : i \in {j \in 1..Len(calls) : calls[j].field # ""}}

\* the fields to which a call sequence wrote the byte d
WroteByte(calls, d) ==
    {calls[i].field : i \in {j \in 1..Len(calls) :
                                calls[j].call = "WriteBattMem" /\ calls[j].data = d}}

\* C3: writeBattMem returns success exactly when every write of a flag field
\* or of the host ID that it issued returned zero (the convention of
\* readBattMem), and it writes the no-amnesia marker 1 to both amnesia fields
\* exactly in that case.
C3_WriteSuccessIffAllWritesOk ==
    lastWrite.done =>
        LET fieldWritesOk ==
                FailedFields(lastWrite.calls) \cap (FlagFields \cup {"scsi_id"}) = {}
        IN  /\ lastWrite.result <=> fieldWritesOk
            /\ (AmnesiaFields \subseteq WroteByte(lastWrite.calls, 1)) <=> fieldWritesOk

\* C4: with every resource call succeeding, writeBattMem of a host ID n in
\* 0..7 stores n XOR 7 (= 7 - n) and a readBattMem that follows yields
\* scsi_id = n; for a host ID of 8 or more writeBattMem issues no write to the
\* host-ID field and the stored host ID stays what it was, while every flag
\* field is still written.
C4_HostIdRoundTrip ==
    /\ (lastRead.done /\ lastOp = "read" /\ lastRead.follows = "write"
            /\ battFail = {} /\ lastWrite.src.scsi_id < 8)
        => /\ data.scsi_id = lastWrite.src.scsi_id
           /\ batt.scsi_id = 7 - lastWrite.src.scsi_id
    /\ (lastWrite.done /\ lastWrite.src.scsi_id >= 8)
        => /\ "scsi_id" \notin CalledFields(lastWrite.calls)
           /\ batt.scsi_id = lastWrite.before.scsi_id
           /\ FlagFields \subseteq CalledFields(lastWrite.calls)
           /\ battFail = {} =>
                \A f \in FlagFields : batt[f] = (IF lastWrite.src[f] THEN 1 ELSE 0)

\* a write of host ID 2 over a different stored ID, read back as 2
C4_Witness ==
    /\ lastRead.done /\ lastOp = "read" /\ lastRead.follows = "write"
    /\ battFail = {}
    /\ lastWrite.src.scsi_id = 2
    /\ lastWrite.before.scsi_id # 5
    /\ batt.scsi_id = 5
    /\ data.scsi_id = 2

----------------------------------------------------------------------------
(* Properties of cache.c *)

Is040Plus(cpu) == cpu >= CPU_68040 /\ cpu <= CPU_68080

\* C6: a toggle whose capability flag is false leaves the cache-control
\* register unchanged; with the capability on a 68040-or-later CPU it flips
\* the whole group of the toggled flag (data or instruction) together, leaves
\* the other group and every other register bit unchanged, and the same
\* toggle applied again restores the register.
C6_ToggleFrame ==
    toggled.op # "none" =>
        /\ ~toggled.cap => cacr = toggled.before
        /\ (toggled.cap /\ Is040Plus(cpu_type)) =>
            LET grp    == IF toggled.flag \subseteq DataGroup THEN DataGroup ELSE InstGroup
                other  == IF toggled.flag \subseteq DataGroup THEN InstGroup ELSE DataGroup
                regbit == IF toggled.flag \subseteq DataGroup
                          THEN CACRF_CopyBack ELSE CACRF_ICACHE040
                viewB  == convert68040to68030(toggled.before, cpu_type)
                viewA  == convert68040to68030(cacr, cpu_type)
            IN  /\ viewB \cap grp \in {{}, grp}
                /\ viewA \cap grp = grp \ viewB
                /\ viewA \cap other = viewB \cap other
                /\ viewA \ (grp \cup other) = viewB \ (grp \cup other)
                /\ cacr \ regbit = toggled.before \ regbit
                /\ (regbit \subseteq cacr) <=> ~(regbit \subseteq toggled.before)
                /\ toggle_gated(toggled.op, toggled.flag, toggled.cap, cacr, cpu_type)
                       = toggled.before

\* toggle_dburst on a 68060 with the data cache on and a store-buffer bit set
C6_Witness ==
    /\ toggled.op = "dburst" /\ toggled.cap
    /\ cpu_type = CPU_68060
    /\ toggled.before = {15, 29, 31}
    /\ cacr = {15, 29}

\* C7 as stated: on a 68040-or-later CPU the round trip keeps every bit
\* outside the five earlier-layout cache positions, and keeps "any data-group
\* bit set" and "any instruction-group bit set"; on any other CPU both
\* conversions are the identity.
C7_RoundTripOutsideFive ==
    conv.done =>
        IF Is040Plus(cpu_type)
        THEN /\ conv.out \ (DataGroup \cup InstGroup) = conv.in \ (DataGroup \cup InstGroup)
             /\ (conv.out \cap DataGroup # {}) <=> (conv.in \cap DataGroup # {})
             /\ (conv.out \cap InstGroup # {}) <=> (conv.in \cap InstGroup # {})
        ELSE conv.mid = conv.in /\ conv.back = conv.in /\ conv.out = conv.in

\* C7: the round trip is as stated for every bit outside the five positions and the
\* later-layout instruction-cache bit, which the round trip always clears.
C7_RoundTripOutsideSix ==
    conv.done =>
        IF Is040Plus(cpu_type)
        THEN LET six == DataGroup \cup InstGroup \cup CACRF_ICACHE040
             IN  /\ conv.out \ six = conv.in \ six
                 /\ conv.out \cap CACRF_ICACHE040 = {}
                 /\ (conv.out \cap DataGroup # {}) <=> (conv.in \cap DataGroup # {})
                 /\ (conv.out \cap InstGroup # {}) <=> (conv.in \cap InstGroup # {})
        ELSE conv.mid = conv.in /\ conv.back = conv.in /\ conv.out = conv.in

\* a pattern with the later-layout bit, an unrelated bit and one data bit set
C7_Witness ==
    /\ conv.done
    /\ cpu_type = CPU_68040
    /\ conv.in = {1, 12, 15}
    /\ conv.mid = {1, 31}
    /\ conv.out = {1, 8, 12, 31}

----------------------------------------------------------------------------
(* benchmark.c, main.c, hardware.c: properties of the timer, main, the      *)
(* probes and the event loop                                                *)

\* init_timer has just returned FALSE to main
TimerJustFailed ==
    /\ pc = "cleanup_timer"
    /\ timerInit.called
    /\ ~timerInit.result
    /\ steps # <<>>
    /\ steps[Len(steps)] = "init_timer"

\* C1: whenever init_timer returns FALSE, at whichever failure point, every
\* port, request block and timer unit the call created or opened has been
\* released, and every handle of the module is null again.
C1_InitTimerUnwinds ==
    TimerJustFailed =>
        /\ \A h \in DOMAIN obj : obj[h] # "live"
        /\ ~unit.microhz /\ ~unit.eclock
        /\ tm = NullTimer

Terminated == pc \in {"done", "crashed"}

CleanupSequence == <<"cleanup_timer", "close_display", "close_libraries", "cleanup_locale">>

Count(s, x) == Cardinality({i \in DOMAIN s : s[i] = x})

\* the step of main that ran last before the cleanup label
LastBeforeCleanup ==
    LET i == CHOOSE j \in DOMAIN steps : steps[j] = "cleanup_timer"
    IN  steps[i - 1]

\* C2: every run of main ends by running cleanup_timer, close_display,
\* close_libraries and cleanup_locale once each in that order; after a
\* mandatory failure no later startup step runs and the exit code is failure,
\* otherwise the exit code is success.
C2_SingleExitPath ==
    Terminated =>
        /\ Len(steps) >= 5
        /\ SubSeq(steps, Len(steps) - 3, Len(steps)) = CleanupSequence
        /\ \A i \in 1..4 : Count(steps, CleanupSequence[i]) = 1
        /\ IF LastBeforeCleanup \in {"open_libraries", "init_timer", "open_display"}
           THEN ret = "RETURN_FAIL"
           ELSE /\ ret = "RETURN_OK"
                /\ LastBeforeCleanup \in {"main_loop", "run_benchmarks"}

\* C8: from a probe's first register write until its restoring write, and
\* inside a timed loop, task switching is suppressed, and no other task has
\* run inside a probe.
C8_ProbesUnderForbid ==
    /\ ppc \in ProbeWindow => forbid > 0
    /\ ~intruded

IsMouseButtons == ev.class = "IDCMP_MOUSEBUTTONS"

IsRegular(b) == b # BTN_NONE /\ b # BTN_SOFTWARE_SCROLLBAR

IsPrintKey == ev.class = "IDCMP_VANILLAKEY" /\ ev.code \in {"p", "P"}

\* C10 as stated: every p or P key message triggers the print/export action,
\* whichever view is current.
C10_PrintKeyAnyView ==
    IsPrintKey => ev.dispatched = <<BTN_PRINT>>

\* C10: a p or P key message triggers the print/export action exactly when
\* the main view is current; in every other view it is ignored, like the
\* m/d/b/s shortcuts.
C10_PrintKeyMainViewOnly ==
    IsPrintKey =>
        /\ ev.viewBefore = "VIEW_MAIN" => ev.dispatched = <<BTN_PRINT>>
        /\ ev.viewBefore # "VIEW_MAIN" =>
              /\ ev.dispatched = <<>>
              /\ ev.benchmarked = FALSE
              /\ (pc = "main_loop" => current_view = ev.viewBefore)

\* p pressed in the memory view: nothing happens
C10_Witness ==
    /\ IsPrintKey
    /\ ev.viewBefore = "VIEW_MEMORY"
    /\ ev.dispatched = <<>>
    /\ current_view = "VIEW_MEMORY"

----------------------------------------------------------------------------
(* Properties of run_dhrystone *)

Min(a, b) == IF a < b THEN a ELSE b

\* the timed runs of a call that found the timer and whose Dhry_Initialize
\* never failed
DhryCompleted == dhry.pc = "done" /\ dhry.ETimerBase /\ dhry.attempt <= max_attempts
                 /\ dhry.ran # <<>>
                 /\ (dhry.attempt = max_attempts
                     \/ dhry.ran[Len(dhry.ran)].elapsed >= min_runtime_us
                     \/ dhry.ran[Len(dhry.ran)].loops >= max_loops)

\* C11: run_dhrystone starts at 1000 iterations and makes at most 3 timed
\* attempts; after an attempt under 100 microseconds the next one runs
\* exactly 16 times as many iterations, capped at 5,000,000; the count never
\* exceeds 5,000,000; and the loop stops as soon as an attempt took
\* 2,000,000 microseconds or ran the capped count.
C11_DhryAttempts ==
    /\ Len(dhry.ran) <= 3
    /\ dhry.loops <= 5000000
    /\ dhry.ran # <<>> => dhry.ran[1].loops = 1000
    /\ \A i \in DOMAIN dhry.ran : dhry.ran[i].loops <= 5000000
    /\ \A i \in DOMAIN dhry.ran :
          i < Len(dhry.ran) =>
              /\ dhry.ran[i].elapsed < 2000000
              /\ dhry.ran[i].loops < 5000000
              /\ dhry.ran[i].elapsed < 100 =>
                    dhry.ran[i + 1].loops = Min(16 * dhry.ran[i].loops, 5000000)
              /\ dhry.ran[i + 1].loops > dhry.ran[i].loops
    /\ (dhry.ran # <<>> /\ (dhry.ran[Len(dhry.ran)].elapsed >= 2000000
                            \/ dhry.ran[Len(dhry.ran)].loops >= 5000000)) =>
          dhry.pc \in {"after", "done"}
    /\ (dhry.pc = "loop" /\ dhry.attempt = Len(dhry.ran)) \/ dhry.pc # "loop"

\* three attempts of 50 microseconds each: 1000, 16000, 256000 iterations
C11_Witness ==
    /\ dhry.pc = "done"
    /\ Len(dhry.ran) = 3
    /\ \A i \in 1..3 : dhry.ran[i].elapsed = 50
    /\ dhry.ran[1].loops = 1000
    /\ dhry.ran[2].loops = 16000
    /\ dhry.ran[3].loops = 256000

\* C20: the rate run_dhrystone returns is (the iteration count executed in
\* the last timed run) * 1,000,000 / (the elapsed microseconds of that run),
\* saturated at the 32-bit maximum, also when all 3 attempts were used; it is
\* 0 when that elapsed time is zero.
C20_RateOfLastRun ==
    DhryCompleted =>
        LET last == dhry.ran[Len(dhry.ran)]
        IN  dhry.result = DhryRate(last.loops, last.elapsed)

----------------------------------------------------------------------------
(* Properties of calculate_mips, determine_mem_location and format_size *)

IsCall(f) == calc.fn = f

\* C12: for every 32-bit rate d, calculate_mips(d) is floor(d * 100 / 1757),
\* computed without 32-bit wrap-around and never above the 32-bit maximum;
\* calculate_mips(1757) = 100 and calculate_mips(91000) = 5179.
C12_MipsExact ==
    IsCall("calculate_mips") =>
        LET d100 == WideMulSmall(calc.in, 100)
        IN  /\ WideGE(d100, WideMulSmall(calc.out, 1757))
            /\ WideGT(WideMulSmall(WideAdd(calc.out, 1), 1757), d100)
            /\ WideGE(ULONG_MAX, calc.out)
            /\ calc.in = <<0, 1757>> => calc.out = <<0, 100>>
            /\ calc.in = <<1, 25464>> => calc.out = <<0, 5179>>

\* calculate_mips(91000) = 5179
C12_Witness ==
    /\ IsCall("calculate_mips")
    /\ calc.in = <<1, 25464>>
    /\ calc.out = <<0, 5179>>

\* the category of the address hi * 65536 + lo by its 64K block
BlockCategory(hi) ==
    IF hi \in 224..231 \/ hi \in 248..255 THEN "LOC_ROM"
    ELSE IF hi < 32 THEN "LOC_CHIP_RAM"
    ELSE IF hi < 256 THEN "LOC_24BIT_RAM"
    ELSE "LOC_32BIT_RAM"

\* C14 as stated: 0x000000 and 0x1FFFFF are chip RAM; 0x200000 and 0x00FFFFFF
\* are 24-bit RAM; 0x01000000 is 32-bit RAM; 0xF80000 and 0xE00000 are ROM;
\* 0xE80000 is 32-bit RAM.
C14_LocationsAsStated ==
    IsCall("determine_mem_location") =>
        /\ calc.out \in {"LOC_ROM", "LOC_CHIP_RAM", "LOC_24BIT_RAM", "LOC_32BIT_RAM"}
        /\ calc.in \in {<<0, 0>>, <<31, 65535>>} => calc.out = "LOC_CHIP_RAM"
        /\ calc.in \in {<<32, 0>>, <<255, 65535>>} => calc.out = "LOC_24BIT_RAM"
        /\ calc.in = <<256, 0>> => calc.out = "LOC_32BIT_RAM"
        /\ calc.in \in {<<248, 0>>, <<224, 0>>} => calc.out = "LOC_ROM"
        /\ calc.in = <<232, 0>> => calc.out = "LOC_32BIT_RAM"

\* C14: determine_mem_location puts every 32-bit address into exactly one
\* category: ROM in 0xE00000-0xE7FFFF and 0xF80000-0xFFFFFF, else chip RAM
\* below 0x200000, else 24-bit RAM below 0x01000000, else 32-bit RAM; so
\* 0x000000 and 0x1FFFFF are chip RAM, 0x200000 is 24-bit RAM, 0x00FFFFFF is
\* ROM, 0x01000000 is 32-bit RAM, 0xF80000 and 0xE00000 are ROM, and 0xE80000
\* is 24-bit RAM.
C14_LocationsByRange ==
    IsCall("determine_mem_location") =>
        /\ calc.out = BlockCategory(calc.in[1])
        /\ calc.in \in {<<0, 0>>, <<31, 65535>>} => calc.out = "LOC_CHIP_RAM"
        /\ calc.in = <<32, 0>> => calc.out = "LOC_24BIT_RAM"
        /\ calc.in = <<255, 65535>> => calc.out = "LOC_ROM"
        /\ calc.in = <<256, 0>> => calc.out = "LOC_32BIT_RAM"
        /\ calc.in \in {<<248, 0>>, <<224, 0>>} => calc.out = "LOC_ROM"
        /\ calc.in = <<232, 0>> => calc.out = "LOC_24BIT_RAM"

\* the top of the 24-bit space lies in the ROM window
C14_Witness ==
    /\ IsCall("determine_mem_location")
    /\ calc.in = <<255, 65535>>
    /\ calc.out = "LOC_ROM"

\* C15: format_size picks the largest tier among G (2^30), M (2^20),
\* K (2^10) whose unit is not larger than b, or the plain integer below 1024,
\* and the value of the tier is floor(b * 100 / unit) without 32-bit
\* wrap-around; 1024 gives 100 K, 1,048,576 gives 100 M, 1023 gives 1023.
C15_FormatSizeExact ==
    IsCall("format_size") =>
        LET b == calc.in
            k == IF WideGE(b, <<16384, 0>>) THEN 30
                 ELSE IF WideGE(b, <<16, 0>>) THEN 20
                 ELSE IF WideGE(b, <<0, 1024>>) THEN 10 ELSE 0
        IN  /\ calc.out.suffix = (IF k = 30 THEN "G" ELSE IF k = 20 THEN "M"
                                  ELSE IF k = 10 THEN "K" ELSE "")
            /\ k = 0 => calc.out.value = b
            /\ k # 0 => calc.out.value = WideDivPow2(WideMulSmall(b, 100), k)
            /\ b = <<0, 1024>> => calc.out = [suffix |-> "K", value |-> <<0, 100>>]
            /\ b = <<16, 0>> => calc.out = [suffix |-> "M", value |-> <<0, 100>>]
            /\ b = <<0, 1023>> => calc.out = [suffix |-> "", value |-> <<0, 1023>>]

----------------------------------------------------------------------------
(* Properties of the software enumerators *)

CategoryWord ==
    IF calc.fn = "enumerate_libraries" THEN "library"
    ELSE IF calc.fn = "enumerate_devices" THEN "device"
    ELSE "resource"

EndsWithSuffix(name, word) ==
    Len(name) >= 2 /\ name[Len(name) - 1] = "." /\ name[Len(name)] = word

OnlyLeadingDot(name) ==
    name # <<>> /\ name[1] = "." /\ \A i \in DOMAIN name : i > 1 => name[i] # "."

\* C16: the three enumerators apply one suffix rule: a name ending in the
\* category's suffix is stored without the suffix and its dot; a name with no
\* dot, a name that is only a leading dot plus text, and a name that does not
\* carry the category suffix are stored unchanged.
C16_OneSuffixRule ==
    (calc.fn \in {"enumerate_libraries", "enumerate_devices", "enumerate_resources"}
        /\ calc.in # "NULL") =>
        LET name == calc.in
            word == CategoryWord
        IN  /\ (\A i \in DOMAIN name : name[i] # ".") => calc.out = name
            /\ OnlyLeadingDot(name) => calc.out = name
            /\ ~HasSuffixText(name, word) => calc.out = name
            /\ (EndsWithSuffix(name, word) /\ ~OnlyLeadingDot(name)) =>
                  calc.out = SubSeq(name, 1, Len(name) - 2)

----------------------------------------------------------------------------
(* Properties of get_mhz_cpu and the comment generators *)

\* C18: for the base 68000 class and a measured count of zero get_mhz_cpu
\* returns exactly 709, and the hardware comment generator for that CPU and
\* that frequency selects the classic tier.
C18_FallbackClassic ==
    (IsCall("get_mhz_cpu") /\ calc.cpu_type \in {CPU_68000, CPU_68010} /\ calc.count = 0) =>
        /\ calc.out = <<0, 709>>
        /\ calc.comment = "MSG_COMMENT_CLASSIC"

\* a 68000 without the E-clock timer: nothing measured
C18_Witness ==
    /\ IsCall("get_mhz_cpu")
    /\ calc.cpu_type = CPU_68000
    /\ calc.count = 0
    /\ calc.out = <<0, 709>>
    /\ calc.comment = "MSG_COMMENT_CLASSIC"

\* the tier a benchmark comment stands for, 1 (lowest) to 9
TierNames ==
    <<"MSG_COMMENT_DEFAULT", "MSG_COMMENT_CLASSIC", "MSG_COMMENT_GOOD",
      "MSG_COMMENT_FAST", "MSG_COMMENT_VERY_FAST", "MSG_COMMENT_BLAZING",
      "MSG_COMMENT_RIDICULUS", "MSG_COMMENT_LUDICROUS", "MSG_COMMENT_WARP11">>

\* the exclusive lower thresholds of tiers 2 to 9
TierThresholds == <<980, 1300, 2000, 7000, 30000, 80000, 130000, 200000>>

\* the tier of a Dhrystone value: one more than the thresholds below it
TierOf(d) ==
    1 + Cardinality({i \in 1..Len(TierThresholds) : WideGT(d, WideOf(TierThresholds[i]))})

\* the nine sample values, lowest tier first
TierSamples == <<500, 1000, 1500, 2500, 8000, 35000, 85000, 135000, 250000>>

\* C17: with valid results the benchmark comment is the tier given by the
\* exclusive thresholds 980, 1300, 2000, 7000, 30000, 80000, 130000, 200000
\* (so the tier never falls as the value grows), the nine sample values select
\* tiers 1 to 9 in order, 980 selects the default tier, and without valid
\* results the comment is the not-available text.
C17_CommentTiers ==
    IsCall("generate_comment") =>
        /\ calc.valid => calc.out = TierNames[TierOf(calc.in)]
        /\ \A i \in 1..9 : (calc.valid /\ calc.in = WideOf(TierSamples[i])) =>
                               calc.out = TierNames[i]
        /\ (calc.valid /\ calc.in = WideOf(980)) => calc.out = "MSG_COMMENT_DEFAULT"
        /\ ~calc.valid => calc.out = "MSG_NA"

\* exactly 980 Dhrystones, valid: still the default tier
C17_Witness ==
    /\ IsCall("generate_comment")
    /\ calc.valid
    /\ calc.in = WideOf(980)
    /\ calc.out = "MSG_COMMENT_DEFAULT"

----------------------------------------------------------------------------
(* Properties of run_benchmarks and get_max_dhrystones *)

\* C13: in every state, before, during and after any number of
\* run_benchmarks calls, get_max_dhrystones returns at least 1000 and at
\* least 91000, and the larger of 91000 and the measured Dhrystones when the
\* results are valid.
C13_MaxDhrystones ==
    LET max_val == get_max_dhrystones(bench.results)
        d == bench.results.dhrystones
    IN  /\ WideGE(max_val, WideOf(1000))
        /\ WideGE(max_val, WideOf(91000))
        /\ bench.results.benchmarks_valid =>
               max_val = IF WideGT(d, WideOf(91000)) THEN d ELSE WideOf(91000)

\* a finished run that measured more than every reference system
C13_Witness ==
    /\ bench.results.benchmarks_valid
    /\ WideGT(bench.results.dhrystones, WideOf(91000))
    /\ get_max_dhrystones(bench.results) = bench.results.dhrystones

InTrace(step) == \E i \in 1..Len(bench.trace) : bench.trace[i] = step

\* the FPU is there and usable: a 68040 or 68060 FPU once its own library was
\* seen loaded, any other FPU as it is
FpuUsable ==
    /\ bench.fpu_type # FPU_NONE
    /\ bench.fpu_type = FPU_68040 => "68040.library" \in bench.seen
    /\ bench.fpu_type = FPU_68060 => "68060.library" \in bench.seen

\* C19: run_benchmarks clears the previous results first, marks the results
\* valid only after all measurements, and runs the floating-point benchmark
\* exactly when an FPU is present and usable, a discrete 68881/68882 needing
\* no library.
C19_RunBenchmarks ==
    /\ bench.pc = "dhrystone" => bench.results = NoResults
    /\ bench.pc # "idle" => ~bench.results.benchmarks_valid
    /\ bench.results.benchmarks_valid =>
           /\ bench.trace[1] = "clear"
           /\ InTrace("dhrystone") /\ InTrace("mips") /\ InTrace("memory") /\ InTrace("mhz")
           /\ bench.trace[Len(bench.trace)] = "valid"
    /\ bench.pc = "memory" => (InTrace("mflops") <=> FpuUsable)

----------------------------------------------------------------------------
(* Properties of the timer's life cycle in main *)

\* init_timer has returned FALSE in this run
TimerFailed == timerInit.called /\ ~timerInit.result

\* C26: when init_timer fails, at whichever point, and main then runs
\* cleanup_timer, every port, request and device unit is released exactly
\* once: cleanup_timer deletes nothing that init_timer already deleted, and
\* afterwards nothing is left allocated or open.
C26_FailureThenCleanupReleasesOnce ==
    /\ (TimerFailed /\ pc = "cleanup_timer") => ~FreesTwice(tm, obj)
    /\ (TimerFailed /\ Count(steps, "cleanup_timer") = 1) =>
           /\ \A h \in DOMAIN obj : obj[h] # "live"
           /\ ~unit.microhz /\ ~unit.eclock

\* C28: when detect_hardware has just taken the startup CPU frequency, the
\* E-clock unit is open, so that the timing loop of get_mhz_cpu measures a
\* count above zero at every loop rate the timer resolves and the frequency is
\* not the per-family fallback.
C28_TimerOpenAtFirstMeasurement ==
    pc = "init_timer" =>
        /\ tm.ETimerBase
        /\ \A cpu \in CpuTypes, rate \in LoopRates \ {10000000} :
               MhzLoop(startMultiplier(cpu), 0, maxMultiplier(cpu),
                       tm.ETimerBase, rate).count > 0

----------------------------------------------------------------------------
(* Properties of main_loop's message handling *)

\* C27: once a close request or a quit key has cleared the running flag, no
\* message handled afterwards has any effect: no button action is dispatched,
\* the view is not switched, no benchmark is run and nothing is exported.
C27_NothingAfterStop ==
    (ev.class # "none" /\ ~ev.runningBefore) =>
        /\ ev.dispatched = <<>>
        /\ ~ev.benchmarked
        /\ current_view = ev.viewBefore

\* C30: the buttons whose pressed flag is set and not yet cleared are none
\* when pressed_button is -1 and otherwise exactly the button it names.
C30_PressedSetMatchesIndex ==
    buttons = IF pressed_button = -1 THEN {} ELSE {pressed_button}

----------------------------------------------------------------------------
(* Properties of the frequency measuring loops *)

\* C22: the multiplier that enters the conversion formula of get_mhz_cpu and
\* get_mhz_fpu never exceeds the ceiling of the CPU generation, and it is the
\* multiplier of the loop run that measured the count, also when the doubling
\* ends at the ceiling with a count still below 2000.
C22_MultiplierOfMeasuredRun ==
    (IsCall("get_mhz_cpu") \/ IsCall("get_mhz_fpu")) =>
        /\ calc.multiplier <= calc.ceiling
        /\ calc.ran # 0 => calc.multiplier = calc.ran

----------------------------------------------------------------------------
(* Properties of the library list *)

\* the index of the entry of a kind in a list, 0 if there is none
IndexOfKind(entries, kind) ==
    IF \E i \in DOMAIN entries : entries[i].kind = kind
    THEN CHOOSE i \in DOMAIN entries : entries[i].kind = kind
    ELSE 0

BothPseudoEntries(entries) ==
    IndexOfKind(entries, "kickstart") # 0 /\ IndexOfKind(entries, "kick update") # 0

\* the libraries of a list are in ascending name order
LibrariesAscending(entries) ==
    \A i, j \in DOMAIN entries :
        (i < j /\ entries[i].kind = "library" /\ entries[j].kind = "library") =>
            entries[i].name <= entries[j].name

\* both pseudo-entries precede every library
PseudoEntriesFirst(entries) ==
    \A i, j \in DOMAIN entries :
        (entries[i].kind # "library" /\ entries[j].kind = "library") => i < j

----------------------------------------------------------------------------
\* the steps of CloseWindowSafely, in the order of the code
CloseOrder == <<"Forbid", "Strip", "ClearUserPort", "ModifyIDCMP", "Permit", "CloseWindow">>

\* s is an initial part of t
IsPrefix(s, t) == Len(s) <= Len(t) /\ SubSeq(t, 1, Len(s)) = s

\* the elements of a sequence that satisfy Test, in order
RECURSIVE IdsFor(_, _)
IdsFor(q, w) ==
    IF q = <<>> THEN <<>>
    ELSE (IF Head(q).IDCMPWindow = w THEN <<Head(q).id>> ELSE <<>>) \o IdsFor(Tail(q), w)

\* CloseWindowSafely has stripped the port
Stripped == cw.pc \in {"ClearUserPort", "ModifyIDCMP", "Permit", "CloseWindow", "done"}

\* C24: CloseWindowSafely does Forbid, strip, clear UserPort, ModifyIDCMP,
\* Permit, CloseWindow in this order; the strip removes and replies each
\* message of this window exactly once and leaves the other windows' messages
\* on the port; task switching is forbidden from the first removal until
\* delivery is disabled; the window is closed only after Permit
C24_CloseProtocol ==
    /\ IsPrefix(cw.trace, CloseOrder)
    /\ (cw.pc = "done") => (cw.trace = CloseOrder /\ ~cw.open)
    /\ (cw.pc \in {"StripLoop", "ClearUserPort", "ModifyIDCMP", "Permit"}) => cw.forbid > 0
    /\ (cw.removed # <<>> /\ cw.IDCMP) => (cw.forbid > 0 /\ cw.open)
    /\ ~cw.open => (cw.forbid = 0 /\ ~cw.IDCMP /\ ~cw.UserPort)
    /\ cw.replied = cw.removed
    /\ Stripped =>
        /\ cw.replied = IdsFor(cw.sent, "win")
        /\ \A i \in 1..Len(cw.port) : cw.port[i].IDCMPWindow = "other"
        /\ IdsFor(cw.port, "other") = IdsFor(cw.sent, "other")

\* a window with messages of both windows queued has been closed
C24_Witness ==
    /\ cw.pc = "done"
    /\ Len(cw.replied) >= 2
    /\ Len(cw.port) >= 1

\* C21: in a pass of detect_hardware every sub-detection reads only results
\* that an earlier step of the same pass has assigned
C21_ReadsAfterAssignment ==
    \A r \in det.reads : r.assigned

\* C25: when detect_gary has written the power-up detect register, the
\* register holds its original value when detect_gary returns
C25_PowerRegisterRestored ==
    (det.garyWrote /\ det.pc # "detect_gary") => det.power = det.powerOrig

\* C29: after detect_batt_mem the valid flag is TRUE only if the clock is an
\* RP5C01, a Ramsey was found, the resource opened and readBattMem succeeded
C29_ValidOnlyAfterGoodRead ==
    ("detect_batt_mem" \in {det.trace[i] : i \in 1..Len(det.trace)} /\ det.hw.valid_data) =>
        /\ det.hw.clock_type = "CLOCK_RP5C01"
        /\ det.hw.ramsey_rev > 0
        /\ det.machine.battOpen
        /\ det.battRead = "ok"

====
